---- MODULE Spec2Model ----
(***************************************************************************)
(* A model of chainer/optimizer.py: Hyperparameter (options inherited from *)
(* a parent), UpdateRule (per-parameter update protocol, local hook        *)
(* pipeline, lazy state, device migration, serialization), Optimizer and   *)
(* GradientMethod (setup, global hooks, update step, serialization) and    *)
(* the hook functions WeightDecay, GradientClipping, GradientHardClipping. *)
(*                                                                         *)
(* Python values are modelled as follows.                                  *)
(*   - an OrderedDict of hooks is a sequence of [name, hook] records;      *)
(*   - the state dict of a rule is [init, ent]: init = FALSE is            *)
(*     `_state is None`, ent maps the keys to values;                      *)
(*   - a value is [arr, val, dev]: arr says whether it is an ndarray, dev  *)
(*     is its device id (-1 the host, as chainer's DummyDevice);           *)
(*   - an exception is the name of its class, "ok" is a normal return.     *)
(* The variable last records the last call: its name, its receiver, the    *)
(* exception it raised and the calls it made to its collaborators, in      *)
(* order, each with what the callee could observe.                         *)
(***************************************************************************)
EXTENDS Integers, Sequences, FiniteSets, TLC

VARIABLES opt, params, rules, store, saved, hyper, last

vars == <<opt, params, rules, store, saved, hyper, last>>

(***************************************************************************)
(* Bounds of the model.                                                    *)
(***************************************************************************)
MaxT == 2
MaxEpoch == 1
MaxDev == 1

Devices == -1 .. MaxDev
Params == {"p1", "p2"}
Names == {"A", "B"}
None == "None"

(***************************************************************************)
(* Values held by state dicts and serializers.                             *)
(***************************************************************************)
Arr(v, d) == [arr |-> TRUE, val |-> v, dev |-> d]
Scalar(v) == [arr |-> FALSE, val |-> v, dev |-> -1]
NoneVal == [arr |-> FALSE, val |-> -1, dev |-> -1]
EmptyMap == [k \in {} |-> NoneVal]
NoState == [init |-> FALSE, ent |-> EmptyMap]

(***************************************************************************)
(* Hook objects. "inst" is an instance of a hook class with a name          *)
(* attribute, "fn" a plain function (no name, a __name__), "part" a        *)
(* callable with neither, "bad" an instance with a name attribute whose    *)
(* call raises, "obj" an object that is not callable.                      *)
(***************************************************************************)
HookObjs == {"inst", "fn", "part", "bad", "obj"}
IsCallable(h) == h # "obj"
NameAttr(h) ==
    IF h = "inst" THEN "A"
    ELSE IF h = "bad" THEN "B"
    ELSE IF h = "WeightDecay" THEN "WeightDecay"
    ELSE None
DunderName(h) == IF h = "fn" THEN "B" ELSE None
\* What calling the hook raises: "bad" is a hook whose body raises.
HookError(h) == IF h = "bad" THEN "RuntimeError" ELSE "ok"

(***************************************************************************)
(* collections.OrderedDict, as used for _hooks.                            *)
(***************************************************************************)
HasKey(m, n) == \E i \in 1 .. Len(m) : m[i].name = n

DictSet(m, n, h) ==
    IF HasKey(m, n)
    THEN [i \in 1 .. Len(m) |-> IF m[i].name = n THEN [name |-> n, hook |-> h] ELSE m[i]]
    ELSE Append(m, [name |-> n, hook |-> h])

\* A deletion that drops the entry and every entry after it.
DictDel_Tail(m, n) ==
    LET k == CHOOSE i \in 1 .. Len(m) : m[i].name = n
    IN  SubSeq(m, 1, k - 1)

\* A deletion that drops the oldest entry, whatever its name.
DictDel_Oldest(m, n) == Tail(m)

DictDel(m, n) == SelectSeq(m, LAMBDA e : e.name # n)

(***************************************************************************)
(* Hyperparameter. The variable hyper maps every hyperparameter object to  *)
(* its __dict__: the key "_parent" (the parent object, or None) and the    *)
(* options set on the object itself.                                       *)
(***************************************************************************)
HNodes == {"h1", "h2", "h3"}
HKeys == {"lr", "beta"}

\* Hyperparameter.__init__(parent)
NewHyper(parent) == [k \in {"_parent"} |-> parent]
NoHyper == [h \in HNodes |-> NewHyper(None)]

\* d[k] = v
DictPut(d, k, v) == [x \in DOMAIN d \cup {k} |-> IF x = k THEN v ELSE d[x]]

\* The depth of calls after which Python gives up: a chain of parents that
\* is longer than the number of objects goes round a cycle and has no end.
RecursionLimit == Cardinality(HNodes)

\* for k, v in self.__dict__: if k != '_parent': d[k] = v
CopyOptions(d, own) ==
    LET ks == DOMAIN own \ {"_parent"}
    IN  [k \in DOMAIN d \cup ks |-> IF k \in ks THEN own[k] ELSE d[k]]

\* get_dict that writes into the __dict__ of the parent and returns it.
RECURSIVE Hyperparameter_get_dict_Shared(_, _, _)
Hyperparameter_get_dict_Shared(hy, h, depth) ==
    LET par == hy[h]["_parent"]
    IN  IF par = None
        THEN [d |-> CopyOptions(EmptyMap, hy[h]), alias |-> None, hyper |-> hy, err |-> "ok"]
        ELSE LET d == CopyOptions(hy[par], hy[h])
             IN  [d |-> d, alias |-> par, hyper |-> [hy EXCEPT ![par] = d], err |-> "ok"]

\* Hyperparameter.get_dict() on object h of the heap hy: the mapping d that
\* is returned, the object whose __dict__ that mapping is (None: a new
\* dict), the heap after the call and the exception.
RECURSIVE Hyperparameter_get_dict(_, _, _)
Hyperparameter_get_dict(hy, h, depth) ==
    IF depth = 0
    THEN [d |-> EmptyMap, alias |-> None, hyper |-> hy, err |-> "RecursionError"]
    ELSE LET par == hy[h]["_parent"]
             up == IF par = None
                   THEN [d |-> EmptyMap, alias |-> None, hyper |-> hy, err |-> "ok"]
                   ELSE Hyperparameter_get_dict(hy, par, depth - 1)
         IN  IF up.err # "ok"
             THEN up
             ELSE [up EXCEPT !.d = CopyOptions(@, hy[h])]

\* An attribute read that asks the parent first.
RECURSIVE Hyperparameter_getattr_ParentFirst(_, _, _, _)
Hyperparameter_getattr_ParentFirst(hy, h, name, depth) ==
    LET par == hy[h]["_parent"]
        up == IF par = None \/ depth = 0
              THEN [ret |-> None, err |-> "AttributeError"]
              ELSE Hyperparameter_getattr_ParentFirst(hy, par, name, depth - 1)
    IN  IF up.err = "ok" THEN up
        ELSE IF name \in DOMAIN hy[h] THEN [ret |-> hy[h][name], err |-> "ok"]
        ELSE up

\* Reading attribute name of object h: the __dict__ of the object first,
\* then __getattr__, which asks the parent.
RECURSIVE Hyperparameter_getattr(_, _, _, _)
Hyperparameter_getattr(hy, h, name, depth) ==
    IF depth = 0
    THEN [ret |-> None, err |-> "RecursionError"]
    ELSE IF name \in DOMAIN hy[h]
    THEN [ret |-> hy[h][name], err |-> "ok"]
    ELSE IF hy[h]["_parent"] = None
    THEN [ret |-> None, err |-> "AttributeError"]
    ELSE Hyperparameter_getattr(hy, hy[h]["_parent"], name, depth - 1)

\* Hyperparameter.set_parent(parent)
Hyperparameter_set_parent(hy, h, parent) == [hy EXCEPT ![h]["_parent"] = parent]

(***************************************************************************)
(* UpdateRule.__init__                                                     *)
(***************************************************************************)
NewUpdateRule(cls) ==
    [cls |-> cls, hooks |-> <<>>, state |-> NoState, enabled |-> TRUE, t |-> 0]

(***************************************************************************)
(* The record of a call, and of a call made to a collaborator: who is the  *)
(* name a hook is registered under, fn the hook, t and st the step counter *)
(* and the state dict the callee finds, dev the parameter's device.        *)
(***************************************************************************)
Call(op, obj, err, name, pre, trace) ==
    [op |-> op, obj |-> obj, err |-> err, name |-> name, pre |-> pre, trace |-> trace,
     undo |-> FALSE, hook |-> None, arg |-> None, ret |-> None, dict |-> EmptyMap,
     after |-> None]

\* Whether remove_hook(name) on obj comes right after a successful
\* add_hook on obj under that name; pre is then the mapping before the two.
Undoes(obj, name) ==
    last.op = "add_hook" /\ last.err = "ok" /\ last.obj = obj /\ last.name = name

Event(ev, who, fn, t, st, dev) ==
    [ev |-> ev, who |-> who, fn |-> fn, t |-> t, st |-> st, dev |-> dev]

\* add_hook that looks for the attribute name only.
UpdateRule_add_hook_NameAttrOnly(hooks, hook, name) ==
    IF ~IsCallable(hook)
    THEN [hooks |-> hooks, err |-> "TypeError", name |-> None]
    ELSE LET nm == IF name = None THEN NameAttr(hook) ELSE name
         IN  IF nm = None
             THEN [hooks |-> hooks, err |-> "ValueError", name |-> None]
             ELSE IF HasKey(hooks, nm)
                  THEN [hooks |-> hooks, err |-> "ValueError", name |-> nm]
                  ELSE [hooks |-> DictSet(hooks, nm, hook), err |-> "ok", name |-> nm]

(***************************************************************************)
(* UpdateRule.add_hook: the new mapping, the exception, the resolved name. *)
(***************************************************************************)
UpdateRule_add_hook(hooks, hook, name) ==
    IF ~IsCallable(hook)
    THEN [hooks |-> hooks, err |-> "TypeError", name |-> None]
    ELSE LET nm == IF name = None
                   THEN (IF NameAttr(hook) # None THEN NameAttr(hook) ELSE DunderName(hook))
                   ELSE name
         IN  IF nm = None
             THEN [hooks |-> hooks, err |-> "ValueError", name |-> None]
             ELSE IF HasKey(hooks, nm)
                  THEN [hooks |-> hooks, err |-> "ValueError", name |-> nm]
                  ELSE [hooks |-> DictSet(hooks, nm, hook), err |-> "ok", name |-> nm]

(***************************************************************************)
(* UpdateRule.remove_hook: del self._hooks[name]                           *)
(***************************************************************************)
UpdateRule_remove_hook(hooks, name) ==
    IF HasKey(hooks, name)
    THEN [hooks |-> DictDel(hooks, name), err |-> "ok"]
    ELSE [hooks |-> hooks, err |-> "KeyError"]

(***************************************************************************)
(* Rule classes. "UpdateRule" is the base class itself: init_state does    *)
(* nothing and both update_core paths raise NotImplementedError.           *)
(* "StatefulRule" is a subclass that overrides init_state (an array "v"    *)
(* like the parameter, and a plain number "k") and both update_core paths. *)
(***************************************************************************)
Classes == {"UpdateRule", "StatefulRule"}

\* UpdateRule.init_state(param), run with param.data on device pdev: the
\* entries it stores into self.state.
init_state(cls, pdev) ==
    IF cls = "UpdateRule"
    THEN EmptyMap
    ELSE [k \in {"v", "k"} |-> IF k = "v" THEN Arr(0, pdev) ELSE Scalar(0)]

\* cuda.to_gpu(value) with the current device cur, and cuda.to_cpu(value).
to_gpu(value, cur) == [value EXCEPT !.dev = cur]
to_cpu(value) == [value EXCEPT !.dev = -1]

\* MigrateEntry with a migration between host and accelerator only.
MigrateEntry_HostOnly(value, device) ==
    IF ~value.arr
    THEN value
    ELSE IF value.dev # device /\ (value.dev = -1 \/ device = -1)
         THEN (IF device >= 0 THEN to_gpu(value, device) ELSE to_cpu(value))
         ELSE value

\* The body of the loop of _prepare for one state entry.
MigrateEntry(value, device) ==
    IF ~value.arr
    THEN value
    ELSE IF value.dev # device
         THEN (IF device >= 0 THEN to_gpu(value, device) ELSE to_cpu(value))
         ELSE value

\* _prepare that calls init_state in every update.
UpdateRule_prepare_Reinit(r, pdev) ==
    LET st0 == [init |-> TRUE, ent |-> init_state(r.cls, pdev)]
        st1 == [init |-> TRUE,
                ent |-> [k \in DOMAIN st0.ent |-> MigrateEntry(st0.ent[k], pdev)]]
    IN  [rule |-> [r EXCEPT !.state = st1],
         trace |-> <<Event("_prepare", "", "", r.t, r.state, pdev),
                     Event("init_state", "", "", r.t, [init |-> TRUE, ent |-> EmptyMap], pdev)>>]

\* _prepare that builds the state in the first update whatever it finds.
UpdateRule_prepare_FirstStep(r, pdev) ==
    LET first == r.t = 1
        st0 == IF first THEN [init |-> TRUE, ent |-> init_state(r.cls, pdev)] ELSE r.state
        st1 == [init |-> TRUE,
                ent |-> [k \in DOMAIN st0.ent |-> MigrateEntry(st0.ent[k], pdev)]]
    IN  [rule |-> [r EXCEPT !.state = st1],
         trace |-> <<Event("_prepare", "", "", r.t, r.state, pdev)>>
                   \o (IF first
                       THEN <<Event("init_state", "", "", r.t,
                                    [init |-> TRUE, ent |-> EmptyMap], pdev)>>
                       ELSE <<>>)]

\* UpdateRule._prepare(param): the rule, and the calls made.
UpdateRule_prepare(r, pdev) ==
    LET first == ~r.state.init
        st0 == IF first THEN [init |-> TRUE, ent |-> init_state(r.cls, pdev)] ELSE r.state
        st1 == [init |-> TRUE,
                ent |-> [k \in DOMAIN st0.ent |-> MigrateEntry(st0.ent[k], pdev)]]
    IN  [rule |-> [r EXCEPT !.state = st1],
         trace |-> <<Event("_prepare", "", "", r.t, r.state, pdev)>>
                   \o (IF first
                       THEN <<Event("init_state", "", "", r.t,
                                    [init |-> TRUE, ent |-> EmptyMap], pdev)>>
                       ELSE <<>>)]

\* for hook in six.itervalues(self._hooks): hook(self, param), from the i-th on.
RECURSIVE CallLocalHooks(_, _, _, _)
CallLocalHooks(hooks, i, r, pdev) ==
    IF i > Len(hooks)
    THEN [trace |-> <<>>, err |-> "ok"]
    ELSE LET e == Event("hook", hooks[i].name, hooks[i].hook, r.t, r.state, pdev)
             er == HookError(hooks[i].hook)
         IN  IF er # "ok"
             THEN [trace |-> <<e>>, err |-> er]
             ELSE LET rest == CallLocalHooks(hooks, i + 1, r, pdev)
                  IN  [trace |-> <<e>> \o rest.trace, err |-> rest.err]

\* update_core_cpu / update_core_gpu of the class: the base class raises, the
\* subclass steps its array entry (arithmetic on a missing or None entry raises).
update_core_path(r) ==
    IF r.cls = "UpdateRule"
    THEN [rule |-> r, err |-> "NotImplementedError"]
    ELSE IF "v" \in DOMAIN r.state.ent /\ r.state.ent["v"].arr
         THEN [rule |-> [r EXCEPT !.state.ent["v"].val = (@ + 1) % 2], err |-> "ok"]
         ELSE [rule |-> r, err |-> "TypeError"]

\* UpdateRule.update_core(param): dispatch on the device of param.data.
UpdateRule_update_core(r, pdev) ==
    LET res == update_core_path(r)
    IN  [rule |-> res.rule, err |-> res.err,
         trace |-> <<Event(IF pdev = -1 THEN "update_core_cpu" ELSE "update_core_gpu",
                           "", "", r.t, r.state, pdev)>>]

\* UpdateRule.update with the hooks run before t is incremented.
UpdateRule_update_LateInc(r, pdev) ==
    IF ~r.enabled
    THEN [rule |-> r, err |-> "ok", trace |-> <<>>]
    ELSE LET pr == UpdateRule_prepare(r, pdev)
             hk == CallLocalHooks(pr.rule.hooks, 1, pr.rule, pdev)
             r1 == [pr.rule EXCEPT !.t = @ + 1]
         IN  IF hk.err # "ok"
             THEN [rule |-> r1, err |-> hk.err, trace |-> pr.trace \o hk.trace]
             ELSE LET co == UpdateRule_update_core(r1, pdev)
                  IN  [rule |-> co.rule, err |-> co.err,
                       trace |-> pr.trace \o hk.trace \o co.trace]

\* UpdateRule.update with the enabled flag tested after t is incremented.
UpdateRule_update_CountsDisabled(r, pdev) ==
    LET r1 == [r EXCEPT !.t = @ + 1]
    IN  IF ~r.enabled
        THEN [rule |-> r1, err |-> "ok", trace |-> <<>>]
        ELSE LET pr == UpdateRule_prepare(r1, pdev)
                 hk == CallLocalHooks(pr.rule.hooks, 1, pr.rule, pdev)
             IN  IF hk.err # "ok"
                 THEN [rule |-> pr.rule, err |-> hk.err, trace |-> pr.trace \o hk.trace]
                 ELSE LET co == UpdateRule_update_core(pr.rule, pdev)
                      IN  [rule |-> co.rule, err |-> co.err,
                           trace |-> pr.trace \o hk.trace \o co.trace]

\* UpdateRule.update that restores the rule when a hook or the core raises.
UpdateRule_update_Rollback(r, pdev) ==
    IF ~r.enabled
    THEN [rule |-> r, err |-> "ok", trace |-> <<>>]
    ELSE LET r1 == [r EXCEPT !.t = @ + 1]
             pr == UpdateRule_prepare(r1, pdev)
             hk == CallLocalHooks(pr.rule.hooks, 1, pr.rule, pdev)
         IN  IF hk.err # "ok"
             THEN [rule |-> r, err |-> hk.err, trace |-> pr.trace \o hk.trace]
             ELSE LET co == UpdateRule_update_core(pr.rule, pdev)
                  IN  [rule |-> IF co.err = "ok" THEN co.rule ELSE r, err |-> co.err,
                       trace |-> pr.trace \o hk.trace \o co.trace]

\* UpdateRule.update(param)
UpdateRule_update(r, pdev) ==
    IF ~r.enabled
    THEN [rule |-> r, err |-> "ok", trace |-> <<>>]
    ELSE LET r1 == [r EXCEPT !.t = @ + 1]
             pr == UpdateRule_prepare(r1, pdev)
             hk == CallLocalHooks(pr.rule.hooks, 1, pr.rule, pdev)
         IN  IF hk.err # "ok"
             THEN [rule |-> pr.rule, err |-> hk.err, trace |-> pr.trace \o hk.trace]
             ELSE LET co == UpdateRule_update_core(pr.rule, pdev)
                  IN  [rule |-> co.rule, err |-> co.err,
                       trace |-> pr.trace \o hk.trace \o co.trace]

(***************************************************************************)
(* The serializer protocol: serializer(key, value) on the mapping m of one *)
(* scope. A Serializer stores value under key and returns it; a            *)
(* Deserializer returns what is stored under key, or value when nothing is.*)
(***************************************************************************)
Modes == {"write", "read"}

SerializerCall(mode, m, key, value) ==
    IF mode = "write"
    THEN [m |-> [k \in DOMAIN m \cup {key} |-> IF k = key THEN value ELSE m[k]],
          ret |-> value]
    ELSE [m |-> m, ret |-> IF key \in DOMAIN m THEN m[key] ELSE value]

\* for key in self._state: self._state[key] = serializer(key, default(key)),
\* over the keys not yet visited.
RECURSIVE SerializeEntries(_, _, _, _, _)
SerializeEntries(mode, m, ent, todo, byDefault) ==
    IF todo = {}
    THEN [m |-> m, ent |-> ent]
    ELSE LET key == CHOOSE k \in todo : TRUE
             res == SerializerCall(mode, m, key, IF byDefault THEN NoneVal ELSE ent[key])
         IN  SerializeEntries(mode, res.m, [ent EXCEPT ![key] = res.ret],
                              todo \ {key}, byDefault)

\* A shadow copy with a state dict of its own (a deep copy): nothing that
\* init_state stores through it reaches self._state.
ShadowInit_DeepCopy(cls) == EmptyMap

\* copy.copy(self): the copy's _state is the very dict of self, so what
\* init_state stores through the copy is stored in self._state.
ShadowInit(cls) == init_state(cls, -1)

\* serialize that discovers the keys whenever the state is None, whatever
\* the serializer.
UpdateRule_serialize_Discover(r, mode, m) ==
    IF ~r.state.init
    THEN LET found == ShadowInit(r.cls)
             res == SerializeEntries(mode, m, found, DOMAIN found, TRUE)
         IN  [rule |-> [r EXCEPT !.state = [init |-> TRUE, ent |-> res.ent]],
              m |-> res.m,
              trace |-> <<Event("copy.init_state", "", "", r.t,
                                [init |-> TRUE, ent |-> EmptyMap], -1)>>]
    ELSE LET res == SerializeEntries(mode, m, r.state.ent, DOMAIN r.state.ent, FALSE)
         IN  [rule |-> [r EXCEPT !.state.ent = res.ent], m |-> res.m, trace |-> <<>>]

\* serialize that saves and loads the step counter as well, under the key t.
UpdateRule_serialize_WithT(r, mode, m) ==
    LET tc == SerializerCall(mode, m, "t", Scalar(r.t))
        rt == [r EXCEPT !.t = tc.ret.val]
    IN  IF ~r.state.init
        THEN IF mode = "read"
             THEN LET found == ShadowInit(r.cls)
                      res == SerializeEntries(mode, tc.m, found, DOMAIN found, TRUE)
                  IN  [rule |-> [rt EXCEPT !.state = [init |-> TRUE, ent |-> res.ent]],
                       m |-> res.m,
                       trace |-> <<Event("copy.init_state", "", "", r.t,
                                         [init |-> TRUE, ent |-> EmptyMap], -1)>>]
             ELSE [rule |-> rt, m |-> tc.m, trace |-> <<>>]
        ELSE LET res == SerializeEntries(mode, tc.m, r.state.ent, DOMAIN r.state.ent, FALSE)
             IN  [rule |-> [rt EXCEPT !.state.ent = res.ent], m |-> res.m, trace |-> <<>>]

\* UpdateRule.serialize(serializer): the rule, the serializer's mapping and
\* the calls made (init_state of the shallow copy).
UpdateRule_serialize(r, mode, m) ==
    IF ~r.state.init
    THEN IF mode = "read"
         THEN LET found == ShadowInit(r.cls)
                  res == SerializeEntries(mode, m, found, DOMAIN found, TRUE)
              IN  [rule |-> [r EXCEPT !.state = [init |-> TRUE, ent |-> res.ent]],
                   m |-> res.m,
                   trace |-> <<Event("copy.init_state", "", "", r.t,
                                     [init |-> TRUE, ent |-> EmptyMap], -1)>>]
         ELSE [rule |-> r, m |-> m, trace |-> <<>>]
    ELSE LET res == SerializeEntries(mode, m, r.state.ent, DOMAIN r.state.ent, FALSE)
         IN  [rule |-> [r EXCEPT !.state.ent = res.ent], m |-> res.m, trace |-> <<>>]

(***************************************************************************)
(* Parameters (chainer.Variable): the device of data, the gradient (set =  *)
(* FALSE is grad None), and whether an update rule is bound.               *)
(***************************************************************************)
ParamShape(p) == IF p = "p1" THEN 1 ELSE 2
ParamDtype(p) == IF p = "p1" THEN "f32" ELSE "f16"
NoGrad == [set |-> FALSE, dtype |-> "", elems |-> <<>>, dev |-> -1]
\* The data of a parameter nobody has given values yet.
NoData(p) == [i \in 1 .. ParamShape(p) |-> 0]
Filled(p, v, d) ==
    [set |-> TRUE, dtype |-> ParamDtype(p), elems |-> [i \in 1 .. ParamShape(p) |-> v], dev |-> d]

NoOptimizer ==
    [setup |-> FALSE, target |-> None, t |-> 0, epoch |-> 0, hooks |-> <<>>,
     cleargrads |-> [has |-> FALSE, use |-> FALSE]]

EmptyStore == [top |-> EmptyMap, sub |-> [p \in Params |-> EmptyMap]]
NothingSaved == [p \in Params |-> [cls |-> None, ent |-> EmptyMap]]

(***************************************************************************)
(* The parameter tree. Links "L1" and "L2" are chainer.Link objects, "x"   *)
(* is an object that is no Link; ParamsOf is the traversal order of        *)
(* params() and namedparams().                                             *)
(***************************************************************************)
Links == {"L1", "L2"}
Targets == Links \cup {"x"}
ParamsOf(link) == IF link = "L1" THEN <<"p1", "p2">> ELSE <<"p2">>
InLink(link) == {ParamsOf(link)[i] : i \in 1 .. Len(ParamsOf(link))}
\* The rule class that setup_update_rule of the optimizer's class binds.
OptRuleClass == "StatefulRule"
\* The parameters the loss of lossfun depends on.
Reachable == {"p1"}

(***************************************************************************)
(* Optimizer.setup with a hooks mapping that survives the call.            *)
(***************************************************************************)
Optimizer_setup_KeepHooks(o, link) ==
    IF link \notin Links
    THEN [opt |-> o, err |-> "TypeError"]
    ELSE [opt |-> [o EXCEPT !.setup = TRUE, !.target = link, !.t = 0, !.epoch = 0],
          err |-> "ok"]

\* Optimizer.setup(link)
Optimizer_setup(o, link) ==
    IF link \notin Links
    THEN [opt |-> o, err |-> "TypeError"]
    ELSE [opt |-> [o EXCEPT !.setup = TRUE, !.target = link, !.t = 0, !.epoch = 0,
                            !.hooks = <<>>],
          err |-> "ok"]

\* Optimizer.new_epoch(): self.epoch does not exist before setup.
Optimizer_new_epoch(o) ==
    IF ~o.setup
    THEN [opt |-> o, err |-> "AttributeError"]
    ELSE [opt |-> [o EXCEPT !.epoch = @ + 1], err |-> "ok"]

\* Optimizer.add_hook(hook, name)
Optimizer_add_hook(o, hook, name) ==
    IF ~IsCallable(hook)
    THEN [opt |-> o, err |-> "TypeError", name |-> None]
    ELSE IF ~o.setup
         THEN [opt |-> o, err |-> "RuntimeError", name |-> None]
         ELSE LET nm == IF name = None THEN NameAttr(hook) ELSE name
              IN  IF nm = None
                  THEN [opt |-> o, err |-> "AttributeError", name |-> None]
                  ELSE IF HasKey(o.hooks, nm)
                       THEN [opt |-> o, err |-> "KeyError", name |-> nm]
                       ELSE [opt |-> [o EXCEPT !.hooks = DictSet(@, nm, hook)],
                             err |-> "ok", name |-> nm]

\* Optimizer.remove_hook(name): self._hooks does not exist before setup.
Optimizer_remove_hook(o, name) ==
    IF ~o.setup
    THEN [opt |-> o, err |-> "AttributeError"]
    ELSE IF HasKey(o.hooks, name)
         THEN [opt |-> [o EXCEPT !.hooks = DictDel(@, name)], err |-> "ok"]
         ELSE [opt |-> o, err |-> "KeyError"]

\* rule.serialize(serializer[name]) for the parameters of order from the
\* i-th on: the sub-scope of a parameter is the mapping under its name, and
\* a parameter without a rule is skipped.
RECURSIVE SerializeParams(_, _, _, _, _, _)
SerializeParams(order, i, mode, st, ps, rs) ==
    IF i > Len(order)
    THEN [store |-> st, rules |-> rs, trace |-> <<>>]
    ELSE LET p == order[i]
         IN  IF ~ps[p].hasRule
             THEN SerializeParams(order, i + 1, mode, st, ps, rs)
             ELSE LET res == UpdateRule_serialize(rs[p], mode, st.sub[p])
                      rest == SerializeParams(order, i + 1, mode,
                                              [st EXCEPT !.sub[p] = res.m], ps,
                                              [rs EXCEPT ![p] = res.rule])
                  IN  [rest EXCEPT !.trace = <<Event("rule.serialize", p, "", rs[p].t,
                                                     rs[p].state, ps[p].dev)>> \o @]

\* Optimizer.serialize that calls the serializer for t and epoch and drops
\* what it returns.
Optimizer_serialize_NoAssign(o, mode, st, ps, rs) ==
    IF ~o.setup
    THEN [opt |-> o, store |-> st, rules |-> rs, err |-> "AttributeError", trace |-> <<>>]
    ELSE LET st2 == SerializerCall(mode, SerializerCall(mode, st.top, "t", o.t).m,
                                   "epoch", o.epoch).m
             res == SerializeParams(ParamsOf(o.target), 1, mode, [st EXCEPT !.top = st2],
                                    ps, rs)
         IN  [opt |-> o, store |-> res.store, rules |-> res.rules, err |-> "ok",
              trace |-> res.trace]

\* Optimizer.serialize(serializer): self.t and self.epoch do not exist before
\* setup.
Optimizer_serialize(o, mode, st, ps, rs) ==
    IF ~o.setup
    THEN [opt |-> o, store |-> st, rules |-> rs, err |-> "AttributeError", trace |-> <<>>]
    ELSE LET st1 == SerializerCall(mode, st.top, "t", o.t)
             st2 == SerializerCall(mode, st1.m, "epoch", o.epoch)
             res == SerializeParams(ParamsOf(o.target), 1, mode, [st EXCEPT !.top = st2.m],
                                    ps, rs)
         IN  [opt |-> [o EXCEPT !.t = st1.ret, !.epoch = st2.ret],
              store |-> res.store, rules |-> res.rules, err |-> "ok", trace |-> res.trace]

(***************************************************************************)
(* Hook functions. The elements of data and gradient arrays are numbers    *)
(* counted in units of 1 / Scale (1.0 is Scale), and the arithmetic of the *)
(* hook functions is exact on them: the inputs are those for which the     *)
(* results are whole numbers of units.                                     *)
(***************************************************************************)
Scale == 60

RECURSIVE SumSeq(_)
SumSeq(s) == IF s = <<>> THEN 0 ELSE Head(s) + SumSeq(Tail(s))

Abs(x) == IF x < 0 THEN -x ELSE x

\* x.ravel().dot(x.ravel())
Dot(x) == SumSeq([i \in 1 .. Len(x) |-> x[i] * x[i]])

\* _sum_sqnorm(arr): the squares are summed up per device, then the sums of
\* the devices are added.
RECURSIVE SumDevices(_, _)
SumDevices(arr, devs) ==
    IF devs = {}
    THEN 0
    ELSE LET d == CHOOSE x \in devs : TRUE
         IN  SumSeq([i \in 1 .. Len(arr) |-> IF arr[i].dev = d THEN Dot(arr[i].elems) ELSE 0])
             + SumDevices(arr, devs \ {d})

sum_sqnorm(arr) == SumDevices(arr, {arr[i].dev : i \in 1 .. Len(arr)})

\* numpy.sqrt of a sum of squares of the elements es: the root is at most
\* the sum of their absolute values.
Sqrt(s, es) == CHOOSE r \in 0 .. SumSeq([i \in 1 .. Len(es) |-> Abs(es[i])]) :
                  r * r <= s /\ s < (r + 1) * (r + 1)

\* The gradients of the parameters of the link, in the order of params().
GradsOf(link, ps) == [i \in 1 .. Len(ParamsOf(link)) |-> ps[ParamsOf(link)[i]].grad]

RECURSIVE Flatten(_)
Flatten(arr) == IF arr = <<>> THEN <<>> ELSE Head(arr).elems \o Flatten(Tail(arr))

\* threshold / norm is inf or nan for norm = 0 and then not below 1.
RateBelowOne(threshold, norm) == norm # 0 /\ threshold < norm

\* xp.clip(x, lower, upper)
Clip(x, lower, upper) ==
    LET a == IF x < lower THEN lower ELSE x
    IN  IF a > upper THEN upper ELSE a

\* Whether the arithmetic of GradientClipping(threshold) is exact on the
\* gradients of the link.
ExactClipping(threshold, link, ps) ==
    LET es == Flatten(GradsOf(link, ps))
        norm == Sqrt(sum_sqnorm(GradsOf(link, ps)), es)
    IN  /\ norm * norm = sum_sqnorm(GradsOf(link, ps))
        /\ norm # 0 => \A i \in 1 .. Len(es) : (es[i] * threshold) % norm = 0

\* GradientClipping that scales whenever the norm is not zero.
GradientClipping_call_Always(threshold, link, ps) ==
    LET norm == Sqrt(sum_sqnorm(GradsOf(link, ps)), Flatten(GradsOf(link, ps)))
    IN  IF norm # 0
        THEN [p \in Params |->
                IF p \in InLink(link)
                THEN [ps[p] EXCEPT !.grad.elems =
                                     [i \in DOMAIN @ |-> (@[i] * threshold) \div norm]]
                ELSE ps[p]]
        ELSE ps

\* GradientClipping(threshold).__call__(opt), on the parameters ps of the
\* target link.
GradientClipping_call(threshold, link, ps) ==
    LET norm == Sqrt(sum_sqnorm(GradsOf(link, ps)), Flatten(GradsOf(link, ps)))
    IN  IF RateBelowOne(threshold, norm)
        THEN [p \in Params |->
                IF p \in InLink(link)
                THEN [ps[p] EXCEPT !.grad.elems =
                                     [i \in DOMAIN @ |-> (@[i] * threshold) \div norm]]
                ELSE ps[p]]
        ELSE ps

\* GradientHardClipping that clips at the upper bound only.
GradientHardClipping_call_UpperOnly(lower, upper, link, ps) ==
    [p \in Params |->
       IF p \in InLink(link)
       THEN [ps[p] EXCEPT !.grad.elems = [i \in DOMAIN @ |-> IF @[i] > upper THEN upper ELSE @[i]]]
       ELSE ps[p]]

\* GradientHardClipping(lower, upper).__call__(opt)
GradientHardClipping_call(lower, upper, link, ps) ==
    [p \in Params |->
       IF p \in InLink(link)
       THEN [ps[p] EXCEPT !.grad.elems = [i \in DOMAIN @ |-> Clip(@[i], lower, upper)]]
       ELSE ps[p]]

\* The rate of the WeightDecay hook: numerator and denominator.
DecayRate == [n |-> 1, d |-> 10]

\* WeightDecay that adds the scaled gradient to the data.
WeightDecay_call_OnData(rate, link, ps) ==
    [p \in Params |->
       IF p \in InLink(link)
       THEN [ps[p] EXCEPT !.data = [i \in DOMAIN @ |->
                                      @[i] + (rate.n * ps[p].grad.elems[i]) \div rate.d]]
       ELSE ps[p]]

\* WeightDecay(rate).__call__(opt): g += rate * p
WeightDecay_call(rate, link, ps) ==
    [p \in Params |->
       IF p \in InLink(link)
       THEN [ps[p] EXCEPT !.grad.elems = [i \in DOMAIN @ |->
                                            @[i] + (rate.n * ps[p].data[i]) \div rate.d]]
       ELSE ps[p]]

\* hook(opt) for a hook that returns: "WeightDecay" is an instance of
\* WeightDecay with the rate DecayRate, the other hooks only look.
HookCall(h, link, ps) ==
    IF h = "WeightDecay" THEN WeightDecay_call(DecayRate, link, ps) ELSE ps

\* Optimizer.call_hooks(), from the i-th hook on: each hook is called with
\* the optimizer and finds its t and the parameters gr, with the gradients
\* as the hooks before it left them.
RECURSIVE Optimizer_call_hooks(_, _, _)
Optimizer_call_hooks(o, i, gr) ==
    IF i > Len(o.hooks)
    THEN [trace |-> <<>>, err |-> "ok", params |-> gr]
    ELSE LET e == Event("global_hook", o.hooks[i].name, o.hooks[i].hook, o.t, gr, -1)
             er == HookError(o.hooks[i].hook)
         IN  IF er # "ok"
             THEN [trace |-> <<e>>, err |-> er, params |-> gr]
             ELSE LET rest == Optimizer_call_hooks(o, i + 1,
                                                   HookCall(o.hooks[i].hook, o.target, gr))
                  IN  [rest EXCEPT !.trace = <<e>> \o @]

\* Link.cleargrads(), Link.zerograds() and loss.backward() on the parameters
\* of link, as gradients gr.
Link_cleargrads(link, ps) ==
    [p \in Params |-> IF p \in InLink(link) THEN [ps[p] EXCEPT !.grad = NoGrad] ELSE ps[p]]

Link_zerograds(link, ps) ==
    [p \in Params |-> IF p \in InLink(link)
                      THEN [ps[p] EXCEPT !.grad = Filled(p, 0, ps[p].dev)]
                      ELSE ps[p]]

Loss_backward(link, ps) ==
    [p \in Params |->
       IF p \in InLink(link) \cap Reachable
       THEN [ps[p] EXCEPT !.grad = IF @.set
                                  THEN [@ EXCEPT !.elems = [i \in DOMAIN @ |-> (@[i] + 1) % 2]]
                                  ELSE Filled(p, 1, ps[p].dev)]
       ELSE ps[p]]

\* The gradient phase of GradientMethod.update when lossfun is given.
ComputeGrads(o, ps) ==
    LET use == IF o.cleargrads.has THEN o.cleargrads.use ELSE FALSE
        cleared == IF use THEN Link_cleargrads(o.target, ps) ELSE Link_zerograds(o.target, ps)
    IN  [params |-> Loss_backward(o.target, cleared),
         trace |-> <<Event("lossfun", "", "", o.t, ps, -1),
                     Event(IF use THEN "cleargrads" ELSE "zerograds", "", "", o.t, ps, -1),
                     Event("backward", "", "", o.t, cleared, -1)>>]

\* ZeroFill that stores a zero gradient into every parameter of the link.
ZeroFill_All(link, ps) ==
    [p \in Params |-> IF p \in InLink(link)
                      THEN [ps[p] EXCEPT !.grad = Filled(p, 0, ps[p].dev)]
                      ELSE ps[p]]

\* for name, param in self.target.namedparams(False): if param.grad is None:
\* param.grad = xp.zeros_like(param.data)
ZeroFill(link, ps) ==
    [p \in Params |-> IF p \in InLink(link) /\ ~ps[p].grad.set
                      THEN [ps[p] EXCEPT !.grad = Filled(p, 0, ps[p].dev)]
                      ELSE ps[p]]

\* for param in self.target.params(): param.update(), from the i-th on.
\* Variable.update calls update of the bound rule, if there is one.
RECURSIVE UpdateParams(_, _, _, _, _)
UpdateParams(order, i, ps, rs, t) ==
    IF i > Len(order)
    THEN [rules |-> rs, trace |-> <<>>, err |-> "ok"]
    ELSE LET p == order[i]
             e == Event("param.update", p, "", t, ps, ps[p].dev)
         IN  IF ~ps[p].hasRule
             THEN LET rest == UpdateParams(order, i + 1, ps, rs, t)
                  IN  [rest EXCEPT !.trace = <<e>> \o @]
             ELSE LET res == UpdateRule_update(rs[p], ps[p].dev)
                      rs1 == [rs EXCEPT ![p] = res.rule]
                  IN  IF res.err # "ok"
                      THEN [rules |-> rs1, trace |-> <<e>> \o res.trace, err |-> res.err]
                      ELSE LET rest == UpdateParams(order, i + 1, ps, rs1, t)
                           IN  [rest EXCEPT !.trace = <<e>> \o res.trace \o @]

\* GradientMethod.update with t incremented before the global hooks run.
GradientMethod_update_EarlyInc(o, lossfun, ps, rs) ==
    LET lf == IF lossfun # None THEN <<Event("lossfun", "", "", o.t, ps, -1)>> ELSE <<>>
    IN  IF ~o.setup
        THEN [opt |-> o, params |-> ps, rules |-> rs, err |-> "AttributeError", trace |-> lf]
        ELSE LET cg == IF lossfun # None
                       THEN ComputeGrads(o, ps)
                       ELSE [params |-> ps, trace |-> <<>>]
                 ps1 == ZeroFill(o.target, cg.params)
                 oh == [o EXCEPT !.t = @ + 1]
                 hk == Optimizer_call_hooks(oh, 1, ps1)
                 tr1 == cg.trace
                        \o <<Event("zero_fill", "", "", o.t, cg.params, -1),
                              Event("call_hooks", "", "", oh.t, ps1, -1)>>
                        \o hk.trace
             IN  IF hk.err # "ok"
                 THEN [opt |-> oh, params |-> hk.params, rules |-> rs, err |-> hk.err,
                       trace |-> tr1]
                 ELSE LET o1 == [o EXCEPT !.t = @ + 1]
                          up == UpdateParams(ParamsOf(o.target), 1, hk.params, rs, o1.t)
                      IN  [opt |-> o1, params |-> hk.params, rules |-> up.rules,
                           err |-> up.err, trace |-> tr1 \o up.trace]

\* GradientMethod.update(lossfun): lossfun is None or a loss function. The
\* events zero_fill and call_hooks hold the gradients before and after the
\* zero fill.
GradientMethod_update(o, lossfun, ps, rs) ==
    LET lf == IF lossfun # None THEN <<Event("lossfun", "", "", o.t, ps, -1)>> ELSE <<>>
    IN  IF ~o.setup
        THEN [opt |-> o, params |-> ps, rules |-> rs, err |-> "AttributeError", trace |-> lf]
        ELSE LET cg == IF lossfun # None
                       THEN ComputeGrads(o, ps)
                       ELSE [params |-> ps, trace |-> <<>>]
                 ps1 == ZeroFill(o.target, cg.params)
                 oh == o
                 hk == Optimizer_call_hooks(oh, 1, ps1)
                 tr1 == cg.trace
                        \o <<Event("zero_fill", "", "", o.t, cg.params, -1),
                              Event("call_hooks", "", "", oh.t, ps1, -1)>>
                        \o hk.trace
             IN  IF hk.err # "ok"
                 THEN [opt |-> oh, params |-> hk.params, rules |-> rs, err |-> hk.err,
                       trace |-> tr1]
                 ELSE LET o1 == [o EXCEPT !.t = @ + 1]
                          up == UpdateParams(ParamsOf(o.target), 1, hk.params, rs, o1.t)
                      IN  [opt |-> o1, params |-> hk.params, rules |-> up.rules,
                           err |-> up.err, trace |-> tr1 \o up.trace]

(***************************************************************************)
(* Operations on the optimizer.                                            *)
(***************************************************************************)
\* GradientMethod.setup(link): Optimizer.setup, then setup_update_rule binds
\* a new rule to every parameter of the link.
Setup(link) ==
    /\ LET res == Optimizer_setup(opt, link)
       IN  /\ opt' = res.opt
           /\ last' = Call("setup", link, res.err, None, <<>>, <<>>)
           /\ IF res.err = "ok"
              THEN /\ rules' = [p \in Params |-> IF p \in InLink(link)
                                                  THEN NewUpdateRule(OptRuleClass)
                                                  ELSE rules[p]]
                   /\ params' = [p \in Params |-> IF p \in InLink(link)
                                                   THEN [params[p] EXCEPT !.hasRule = TRUE]
                                                   ELSE params[p]]
              ELSE UNCHANGED <<rules, params>>
    /\ UNCHANGED <<store, saved, hyper>>

NewEpoch ==
    /\ opt.epoch < MaxEpoch
    /\ LET res == Optimizer_new_epoch(opt)
       IN  /\ opt' = res.opt
           /\ last' = Call("new_epoch", "opt", res.err, None, <<>>, <<>>)
    /\ UNCHANGED <<params, rules, store, saved, hyper>>

OptAddHook(hook, name) ==
    /\ LET res == Optimizer_add_hook(opt, hook, name)
       IN  /\ opt' = res.opt
           /\ last' = [Call("add_hook", "opt", res.err, res.name,
                            IF res.err = "ok" THEN opt.hooks ELSE <<>>, <<>>)
                         EXCEPT !.hook = hook, !.arg = name]
    /\ UNCHANGED <<params, rules, store, saved, hyper>>

OptRemoveHook(name) ==
    /\ LET res == Optimizer_remove_hook(opt, name)
       IN  /\ opt' = res.opt
           /\ last' = [Call("remove_hook", "opt", res.err, name, <<>>, <<>>)
                         EXCEPT !.undo = Undoes("opt", name)]
    /\ UNCHANGED <<params, rules, store, saved, hyper>>

\* GradientMethod.use_cleargrads(use)
UseCleargrads(use) ==
    /\ opt' = [opt EXCEPT !.cleargrads = [has |-> TRUE, use |-> use]]
    /\ last' = Call("use_cleargrads", "opt", "ok", None, <<>>, <<>>)
    /\ UNCHANGED <<params, rules, store, saved, hyper>>

Update(lossfun) ==
    /\ opt.t < MaxT
    /\ LET res == GradientMethod_update(opt, lossfun, params, rules)
       IN  /\ opt' = res.opt
           /\ params' = res.params
           /\ rules' = res.rules
           /\ last' = Call("update", "opt", res.err, lossfun, <<>>, res.trace)
    /\ UNCHANGED <<store, saved, hyper>>

\* param.grad = None, or an array like param.data, set from outside.
SetGrad(p, set) ==
    /\ params' = [params EXCEPT ![p].grad = IF set THEN Filled(p, 1, params[p].dev) ELSE NoGrad]
    /\ last' = Call("set_grad", p, "ok", None, <<>>, <<>>)
    /\ UNCHANGED <<opt, rules, store, saved, hyper>>

(***************************************************************************)
(* Operations on the update rule bound to parameter p.                     *)
(***************************************************************************)
\* param.update_rule = cls()
BindRule(p, cls) ==
    /\ rules' = [rules EXCEPT ![p] = NewUpdateRule(cls)]
    /\ params' = [params EXCEPT ![p].hasRule = TRUE]
    /\ last' = Call("bind", p, "ok", None, <<>>, <<>>)
    /\ UNCHANGED <<opt, store, saved, hyper>>

RuleAddHook(p, hook, name) ==
    /\ params[p].hasRule
    /\ LET res == UpdateRule_add_hook(rules[p].hooks, hook, name)
       IN  /\ rules' = [rules EXCEPT ![p].hooks = res.hooks]
           /\ last' = [Call("add_hook", p, res.err, res.name,
                            IF res.err = "ok" THEN rules[p].hooks ELSE <<>>, <<>>)
                         EXCEPT !.hook = hook, !.arg = name]
    /\ UNCHANGED <<opt, params, store, saved, hyper>>

RuleRemoveHook(p, name) ==
    /\ params[p].hasRule
    /\ LET res == UpdateRule_remove_hook(rules[p].hooks, name)
       IN  /\ rules' = [rules EXCEPT ![p].hooks = res.hooks]
           /\ last' = [Call("remove_hook", p, res.err, name, <<>>, <<>>)
                         EXCEPT !.undo = Undoes(p, name)]
    /\ UNCHANGED <<opt, params, store, saved, hyper>>

\* rule.enabled = b
SetEnabled(p, b) ==
    /\ params[p].hasRule
    /\ rules' = [rules EXCEPT ![p].enabled = b]
    /\ last' = Call("set_enabled", p, "ok", None, <<>>, <<>>)
    /\ UNCHANGED <<opt, params, store, saved, hyper>>

\* rule.update(param)
RuleUpdate(p) ==
    /\ params[p].hasRule
    /\ rules[p].enabled => rules[p].t < MaxT
    /\ LET res == UpdateRule_update(rules[p], params[p].dev)
       IN  /\ rules' = [rules EXCEPT ![p] = res.rule]
           /\ last' = Call("rule_update", p, res.err, None, <<>>, res.trace)
    /\ UNCHANGED <<opt, params, store, saved, hyper>>

\* rule.serialize(serializer[p]) with a Serializer or a Deserializer
RuleSerialize(p, mode) ==
    /\ params[p].hasRule
    /\ LET res == UpdateRule_serialize(rules[p], mode, store.sub[p])
       IN  /\ rules' = [rules EXCEPT ![p] = res.rule]
           /\ store' = [store EXCEPT !.sub[p] = res.m]
           /\ saved' = IF mode = "write" /\ rules[p].state.init
                       THEN [saved EXCEPT ![p] = [cls |-> rules[p].cls, ent |-> rules[p].state.ent]]
                       ELSE saved
           /\ last' = Call("rule_serialize", p, "ok", mode, <<>>, res.trace)
    /\ UNCHANGED <<opt, params, hyper>>

\* The parameter is moved to device d (Link.to_cpu / Link.to_gpu): its data
\* and its gradient move, the state of its rule does not.
MoveParam(p, d) ==
    /\ params[p].dev # d
    /\ params' = [params EXCEPT ![p].dev = d,
                                ![p].grad = IF @.set THEN [@ EXCEPT !.dev = d] ELSE @]
    /\ last' = Call("move", p, "ok", None, <<>>, <<>>)
    /\ UNCHANGED <<opt, rules, store, saved, hyper>>

(***************************************************************************)
(* One update rule, bound to parameter p1, used directly.                  *)
(***************************************************************************)
RuleHooks == {"inst", "fn", "bad"}

InitRule ==
    /\ opt = NoOptimizer
    /\ \E c \in Classes :
          rules = [p \in Params |-> NewUpdateRule(IF p = "p1" THEN c ELSE "UpdateRule")]
    /\ \E d \in Devices :
          params = [p \in Params |-> [dev |-> IF p = "p1" THEN d ELSE -1,
                                      data |-> NoData(p), grad |-> NoGrad,
                                      hasRule |-> p = "p1"]]
    /\ store = EmptyStore
    /\ saved = NothingSaved
    /\ hyper = NoHyper
    /\ last = Call("init", None, "ok", None, <<>>, <<>>)

NextRule ==
    \/ \E c \in Classes : BindRule("p1", c)
    \/ \E h \in RuleHooks : RuleAddHook("p1", h, None)
    \/ \E n \in Names : RuleRemoveHook("p1", n)
    \/ \E b \in BOOLEAN : SetEnabled("p1", b)
    \/ RuleUpdate("p1")
    \/ \E m \in Modes : RuleSerialize("p1", m)
    \/ \E d \in Devices : MoveParam("p1", d)

SpecRule == InitRule /\ [][NextRule]_vars

(***************************************************************************)
(* Properties of UpdateRule.update.                                        *)
(***************************************************************************)
IsHook(e) == e.ev = "hook"
IsCore(e) == e.ev \in {"update_core_cpu", "update_core_gpu"}
AllReturn(hooks) == \A i \in 1 .. Len(hooks) : HookError(hooks[i].hook) = "ok"

\* C1: an enabled update(param) whose hooks all return increments t by
\* exactly 1, then prepares the state, then calls every registered hook once,
\* in insertion order, then calls the numeric core once, last; the hooks and
\* the core find the incremented t and the prepared state.
C1_UpdateOrder ==
    [][\A p \in Params :
         (last'.op = "rule_update" /\ last'.obj = p /\ rules[p].enabled
            /\ AllReturn(rules[p].hooks))
         => LET tr == last'.trace
                n == Len(tr)
                hk == rules[p].hooks
                h0 == n - Len(hk) - 1
            IN  /\ rules'[p].t = rules[p].t + 1
                /\ n >= Len(hk) + 2
                /\ tr[1].ev = "_prepare" /\ tr[1].t = rules[p].t + 1
                /\ tr[1].st = rules[p].state
                /\ \A i \in 2 .. h0 : tr[i].ev = "init_state" /\ tr[i].t = rules[p].t + 1
                /\ h0 \in {1, 2} /\ (h0 = 2 <=> ~rules[p].state.init)
                /\ \A i \in 1 .. Len(hk) :
                      /\ IsHook(tr[h0 + i])
                      /\ tr[h0 + i].who = hk[i].name /\ tr[h0 + i].fn = hk[i].hook
                      /\ tr[h0 + i].t = rules[p].t + 1
                      /\ tr[h0 + i].st.init
                      /\ tr[h0 + i].dev = params[p].dev
                /\ IsCore(tr[n]) /\ tr[n].t = rules[p].t + 1 /\ tr[n].st.init
                /\ Cardinality({i \in 1 .. n : IsCore(tr[i])}) = 1
                /\ Cardinality({i \in 1 .. n : IsHook(tr[i])}) = Len(hk)]_vars

C1_Witness ==
    /\ last.op = "rule_update" /\ last.err = "ok"
    /\ Len(rules["p1"].hooks) = 2
    /\ Len(last.trace) = 5
    /\ last.trace[2].ev = "init_state"
    /\ IsHook(last.trace[3]) /\ IsHook(last.trace[4]) /\ IsCore(last.trace[5])

\* C2: update(param) on a rule whose enabled flag is false changes nothing:
\* t, the state (None stays None) and everything else are as before, and
\* init_state, the hooks and the numeric core are not called.
C2_DisabledNoOp ==
    [][\A p \in Params :
         (last'.op = "rule_update" /\ last'.obj = p /\ ~rules[p].enabled)
         => /\ rules' = rules
            /\ last'.trace = <<>> /\ last'.err = "ok"
            /\ UNCHANGED <<opt, params, store, saved>>]_vars

C2_Witness ==
    /\ last.op = "rule_update" /\ ~rules["p1"].enabled
    /\ Len(rules["p1"].hooks) = 2
    /\ ~rules["p1"].state.init /\ rules["p1"].t = 0

\* C6: when the hooks and the numeric core of an enabled update run, every
\* array entry of the state is on the device the parameter is on now; the
\* entries of a state that existed before keep their names and values, and
\* the entries that are not arrays are the same.
C6_StateOnParamDevice ==
    [][\A p \in Params :
         (last'.op = "rule_update" /\ last'.obj = p /\ rules[p].enabled)
         => \A i \in 1 .. Len(last'.trace) :
              LET e == last'.trace[i]
                  old == rules[p].state
              IN  (IsHook(e) \/ IsCore(e))
                  => /\ e.dev = params[p].dev
                     /\ \A k \in DOMAIN e.st.ent :
                           e.st.ent[k].arr => e.st.ent[k].dev = params[p].dev
                     /\ old.init =>
                           /\ DOMAIN e.st.ent = DOMAIN old.ent
                           /\ \A k \in DOMAIN old.ent :
                                 /\ e.st.ent[k].val = old.ent[k].val
                                 /\ e.st.ent[k].arr = old.ent[k].arr
                                 /\ ~old.ent[k].arr => e.st.ent[k] = old.ent[k]]_vars

\* An update that found its array on accelerator 0 with the parameter on
\* accelerator 1.
C6_Witness ==
    /\ last.op = "rule_update" /\ last.err = "ok"
    /\ rules["p1"].cls = "StatefulRule"
    /\ params["p1"].dev = 1
    /\ Len(last.trace) >= 1
    /\ last.trace[1].st.init
    /\ "v" \in DOMAIN last.trace[1].st.ent
    /\ last.trace[1].st.ent["v"].arr /\ last.trace[1].st.ent["v"].dev = 0
    /\ rules["p1"].state.ent["v"].dev = 1

\* C7: serialize(reader) on a rule whose state is None, after a rule of the
\* same class wrote its state with serialize(writer), gives the rule a state
\* with the writer's keys and the writer's value for each key; the keys are
\* those a throwaway init_state stores.
C7_RoundTrip ==
    [][\A p \in Params :
         (last'.op = "rule_serialize" /\ last'.obj = p /\ last'.name = "read"
            /\ ~rules[p].state.init /\ saved[p].cls = rules[p].cls)
         => /\ rules'[p].state.init
            /\ DOMAIN rules'[p].state.ent = DOMAIN init_state(rules[p].cls, -1)
            /\ rules'[p].state.ent = saved[p].ent
            /\ store' = store]_vars

C7_Witness ==
    /\ last.op = "rule_serialize" /\ last.name = "read"
    /\ rules["p1"].cls = "StatefulRule" /\ rules["p1"].t = 0
    /\ rules["p1"].state.init
    /\ rules["p1"].state.ent["v"].arr /\ rules["p1"].state.ent["v"].val = 1
    /\ rules["p1"].state.ent = saved["p1"].ent

(***************************************************************************)
(* A gradient method and the parameters of its target.                     *)
(***************************************************************************)
OptHookArgs == {<<"inst", None>>, <<"fn", "B">>, <<"bad", None>>}

InitOpt ==
    /\ opt = NoOptimizer
    /\ rules = [p \in Params |-> NewUpdateRule("UpdateRule")]
    /\ params = [p \in Params |-> [dev |-> -1, data |-> NoData(p), grad |-> NoGrad,
                                  hasRule |-> FALSE]]
    /\ store = EmptyStore
    /\ saved = NothingSaved
    /\ hyper = NoHyper
    /\ last = Call("init", None, "ok", None, <<>>, <<>>)

NextOpt ==
    \/ \E l \in Targets : Setup(l)
    \/ NewEpoch
    \/ \E a \in OptHookArgs : OptAddHook(a[1], a[2])
    \/ \E n \in Names : OptRemoveHook(n)
    \/ \E b \in BOOLEAN : UseCleargrads(b)
    \/ \E lf \in {None, "lossfun"} : Update(lf)
    \/ \E p \in Params, b \in BOOLEAN : SetGrad(p, b)

SpecOpt == InitOpt /\ [][NextOpt]_vars

(***************************************************************************)
(* Properties of GradientMethod.update and Optimizer.setup.                *)
(***************************************************************************)
Where(tr, ev) == {i \in 1 .. Len(tr) : tr[i].ev = ev}
RuleEvents == {"param.update", "_prepare", "init_state", "hook",
               "update_core_cpu", "update_core_gpu"}
ZeroGrad(g, p, d) ==
    /\ g.set /\ g.dtype = ParamDtype(p) /\ g.dev = d
    /\ Len(g.elems) = ParamShape(p)
    /\ \A i \in 1 .. Len(g.elems) : g.elems[i] = 0

\* C3: one GradientMethod.update() whose global hooks all return zero-fills
\* the absent gradients, then calls every global hook once, in registration
\* order, each finding the filled gradients and the t from before the step,
\* then increments t, then updates the rule of every parameter of the target
\* in traversal order; nothing of a rule runs before the last global hook.
C3_StepOrder ==
    [][(last'.op = "update" /\ opt.setup /\ AllReturn(opt.hooks))
       => LET tr == last'.trace
              g == Len(opt.hooks)
              order == ParamsOf(opt.target)
              ups == SelectSeq(tr, LAMBDA e : e.ev = "param.update")
          IN  /\ Cardinality(Where(tr, "call_hooks")) = 1
              /\ Cardinality(Where(tr, "zero_fill")) = 1
              /\ Cardinality(Where(tr, "global_hook")) = g
              /\ \A c \in Where(tr, "call_hooks") :
                    /\ c > 1 /\ tr[c - 1].ev = "zero_fill"
                    /\ \A p \in InLink(opt.target) : tr[c].st[p].grad.set
                    /\ \A i \in 1 .. g :
                          /\ tr[c + i].ev = "global_hook"
                          /\ tr[c + i].who = opt.hooks[i].name
                          /\ tr[c + i].fn = opt.hooks[i].hook
                          /\ tr[c + i].t = opt.t
                          /\ tr[c + i].st = tr[c].st
                    /\ \A i \in 1 .. Len(tr) : tr[i].ev \in RuleEvents <=> i > c + g
                    /\ \A i \in 1 .. Len(tr) : i > c + g => tr[i].t = opt.t + 1
              /\ opt'.t = opt.t + 1
              /\ Len(ups) = Len(order)
              /\ \A i \in 1 .. Len(order) : ups[i].who = order[i]
              /\ \A p \in InLink(opt.target) :
                    rules[p].enabled => rules'[p].t = rules[p].t + 1]_vars

C3_Witness ==
    /\ last.op = "update" /\ last.err = "ok"
    /\ opt.target = "L1" /\ Len(opt.hooks) = 2 /\ opt.t = 2
    /\ Cardinality(Where(last.trace, "global_hook")) = 2
    /\ Cardinality(Where(last.trace, "param.update")) = 2
    /\ Cardinality(Where(last.trace, "update_core_cpu")) = 2

\* C4: update(lossfun) clears the gradients first (cleargrads when the mode
\* flag is set, zerograds otherwise, once), then calls lossfun, then backward;
\* update() without lossfun clears nothing.
C4_ClearBeforeLossfun ==
    (last.op = "update" /\ opt.setup)
    => LET tr == last.trace
           cl == Where(tr, "cleargrads") \cup Where(tr, "zerograds")
       IN  IF last.name = None
           THEN cl = {}
           ELSE /\ Cardinality(cl) = 1
                /\ Where(tr, IF opt.cleargrads.has /\ opt.cleargrads.use
                              THEN "cleargrads" ELSE "zerograds") = cl
                /\ \A c \in cl, l \in Where(tr, "lossfun"), b \in Where(tr, "backward") :
                      c < l /\ l < b

\* C5: in update() without lossfun, when the global hooks start every
\* parameter of the target whose gradient was None holds a zero gradient of
\* the parameter's shape and dtype on its device, every gradient that was set
\* is as it was, and a call that returns has incremented t by exactly 1.
C5_ZeroFill ==
    [][(last'.op = "update" /\ last'.name = None /\ opt.setup)
       => /\ \A c \in Where(last'.trace, "call_hooks") :
                \A p \in InLink(opt.target) :
                  IF params[p].grad.set
                  THEN last'.trace[c].st[p].grad = params[p].grad
                  ELSE ZeroGrad(last'.trace[c].st[p].grad, p, params[p].dev)
          /\ Cardinality(Where(last'.trace, "call_hooks")) = 1
          /\ last'.err = "ok" => opt'.t = opt.t + 1]_vars

\* The first parameter had its gradient set, the second had none.
C5_Witness ==
    /\ last.op = "update" /\ last.name = None /\ last.err = "ok"
    /\ opt.target = "L1"
    /\ \E z \in Where(last.trace, "zero_fill") :
          /\ last.trace[z].st["p1"].grad.set
          /\ ~last.trace[z].st["p2"].grad.set
    /\ params["p1"].grad.elems = <<1>>
    /\ params["p2"].grad.elems = <<0, 0>>

\* C8: a setup(link) that succeeds leaves t = 0, epoch = 0, no global hook
\* and target = link, whatever came before; setup with an object that is no
\* link raises TypeError and leaves the optimizer as it was.
C8_SetupResets ==
    [][last'.op = "setup"
       => IF last'.obj \in Links
          THEN /\ last'.err = "ok"
               /\ opt'.setup /\ opt'.target = last'.obj
               /\ opt'.t = 0 /\ opt'.epoch = 0 /\ opt'.hooks = <<>>
          ELSE /\ last'.err = "TypeError"
               /\ opt' = opt]_vars

\* A setup on the second link after two updates on the first.
C8_Witness ==
    /\ last.op = "setup" /\ last.err = "ok"
    /\ opt.target = "L2" /\ opt.t = 0 /\ opt.epoch = 0 /\ opt.hooks = <<>>
    /\ rules["p1"].t = 2

(***************************************************************************)
(* The two hook pipelines: the global hooks of the optimizer and the hooks *)
(* of the rule of parameter p1, with every kind of hook and name.          *)
(***************************************************************************)
NextHooks ==
    \/ Setup("L1")
    \/ \E h \in HookObjs, n \in Names \cup {None} : RuleAddHook("p1", h, n)
    \/ \E n \in Names : RuleRemoveHook("p1", n)
    \/ \E h \in HookObjs, n \in Names \cup {None} : OptAddHook(h, n)
    \/ \E n \in Names : OptRemoveHook(n)

SpecHooks == InitOpt /\ [][NextHooks]_vars

HooksOf(o, op, rs) == IF o = "opt" THEN op.hooks ELSE rs[o].hooks

\* The hooks a pipeline with mapping m calls, in order.
InvokeOrder(o, m) ==
    LET tr == IF o = "opt"
              THEN Optimizer_call_hooks([NoOptimizer EXCEPT !.hooks = m], 1, <<>>).trace
              ELSE CallLocalHooks(m, 1, NewUpdateRule("UpdateRule"), -1).trace
    IN  [i \in 1 .. Len(tr) |-> <<tr[i].who, tr[i].fn>>]

ErrorKind(err) ==
    CASE err = "TypeError" -> "TypeKind"
      [] err = "ValueError" -> "ValueKind"
      [] err = "KeyError" -> "KeyKind"
      [] err = "RuntimeError" -> "RuntimeKind"
      [] err = "NotImplementedError" -> "NotImplementedKind"
      [] OTHER -> "none"

\* C10: add_hook under a name that is already registered, on a rule or on
\* the optimizer, fails with an error of the kind DuplicateKind, which is
\* neither ValueKind nor KeyKind.
C10_DuplicateKind ==
    (last.op = "add_hook" /\ last.err # "ok" /\ last.name # None)
    => /\ HasKey(HooksOf(last.obj, opt, rules), last.name)
       /\ ErrorKind(last.err) \notin {"TypeKind", "ValueKind", "KeyKind", "RuntimeKind",
                                      "NotImplementedKind", "none"}

(***************************************************************************)
(* Properties of add_hook and remove_hook.                                 *)
(***************************************************************************)
\* The name add_hook(hook, name) registers under when it looks at the
\* attributes of the hook in the order of the sequence attrs.
RECURSIVE FirstName(_, _, _)
FirstName(hook, name, attrs) ==
    IF name # None THEN name
    ELSE IF attrs = <<>> THEN None
    ELSE IF Head(attrs) = "name" /\ NameAttr(hook) # None THEN NameAttr(hook)
    ELSE IF Head(attrs) = "__name__" /\ DunderName(hook) # None THEN DunderName(hook)
    ELSE FirstName(hook, name, Tail(attrs))

\* What add_hook(hook, name) on the rule of parameter p does in a step, with
\* the attributes of the hook that may give the name.
RuleAddHookContract(p, attrs) ==
    LET nm == FirstName(last'.hook, last'.arg, attrs)
        m == rules[p].hooks
    IN  IF ~IsCallable(last'.hook)
        THEN last'.err = "TypeError" /\ rules' = rules
        ELSE IF nm = None
        THEN last'.err = "ValueError" /\ rules' = rules
        ELSE IF HasKey(m, nm)
        THEN last'.err # "ok" /\ rules' = rules
        ELSE /\ last'.err = "ok"
             /\ rules' = [rules EXCEPT ![p].hooks = m \o <<[name |-> nm, hook |-> last'.hook]>>]
             /\ AllReturn(m) => InvokeOrder(p, rules'[p].hooks)
                                   = InvokeOrder(p, m) \o <<(<<nm, last'.hook>>)>>

\* C11 as stated: UpdateRule.add_hook takes the name from the argument, else
\* from hook.name, and fails with ValueError when neither gives one; a hook
\* that is not callable fails with TypeError first; a successful call puts
\* the hook at the end of the order; a failing call changes no mapping.
C11_NameFromArgOrAttr ==
    [][\A p \in Params :
         (last'.op = "add_hook" /\ last'.obj = p) => RuleAddHookContract(p, <<"name">>)]_vars

\* C11: UpdateRule.add_hook takes the name from the argument, else from
\* hook.name, else from hook.__name__, and fails with ValueError when none
\* gives one; a hook that is not callable fails with TypeError first; a
\* successful call puts the hook at the end of the order; a failing call
\* changes no mapping.
C11_NameResolution ==
    [][\A p \in Params :
         (last'.op = "add_hook" /\ last'.obj = p)
         => RuleAddHookContract(p, <<"name", "__name__">>)]_vars

\* A function without the attribute name is registered under its __name__,
\* after a hook that was there before.
C11_Witness ==
    /\ last.op = "add_hook" /\ last.obj = "p1" /\ last.err = "ok"
    /\ last.hook = "fn" /\ last.arg = None
    /\ Len(rules["p1"].hooks) = 2
    /\ rules["p1"].hooks[2] = [name |-> "B", hook |-> "fn"]

\* C12: Optimizer.add_hook before setup fails with RuntimeError whatever its
\* arguments are and registers nothing; after setup it fails with TypeError
\* for a hook that is not callable and with ValueError when neither the
\* argument nor the hook gives a name, and a successful call puts the hook
\* at the end of the order.
C12_OptimizerAddHook ==
    (last.op = "add_hook" /\ last.obj = "opt")
    => IF ~opt.setup
       THEN last.err = "RuntimeError" /\ opt.hooks = <<>>
       ELSE IF ~IsCallable(last.hook)
       THEN last.err = "TypeError"
       ELSE IF FirstName(last.hook, last.arg, <<"name">>) = None
       THEN last.err = "ValueError"
       ELSE last.err = "ok"
            => /\ opt.hooks = Append(last.pre, [name |-> last.name, hook |-> last.hook])
               /\ last.name = FirstName(last.hook, last.arg, <<"name">>)

\* What remove_hook(name) does in a step to the mapping m of a pipeline that
\* becomes m2: KeyError and no change for a name that is not registered,
\* else exactly that entry goes and the others keep their order.
RemoveContract(m, m2) ==
    IF ~HasKey(m, last'.name)
    THEN last'.err = "KeyError" /\ m2 = m
    ELSE /\ last'.err = "ok"
         /\ Len(m2) = Len(m) - 1
         /\ ~HasKey(m2, last'.name)
         /\ \E k \in 1 .. Len(m) :
               /\ m[k].name = last'.name
               /\ \A i \in 1 .. Len(m2) : m2[i] = IF i < k THEN m[i] ELSE m[i + 1]

\* C13 as stated: remove_hook(name) on a rule and on the optimizer fails
\* with KeyError and changes nothing when the name is not registered, and
\* removes exactly the entry of that name when it is.
C13_RemoveHookAlways ==
    [][last'.op = "remove_hook"
       => /\ RemoveContract(HooksOf(last'.obj, opt, rules), HooksOf(last'.obj, opt', rules'))
          /\ (last'.err # "ok" \/ last'.obj # "opt") => opt' = opt
          /\ \A p \in Params : (last'.err # "ok" \/ last'.obj # p) => rules'[p] = rules[p]]_vars

\* C13: remove_hook(name) on a rule, and on an optimizer that was set up,
\* fails with KeyError and changes nothing when the name is not registered,
\* and removes exactly the entry of that name when it is; on an optimizer
\* that was never set up it fails with AttributeError and changes nothing.
C13_RemoveHook ==
    [][last'.op = "remove_hook"
       => /\ IF last'.obj = "opt" /\ ~opt.setup
             THEN last'.err = "AttributeError"
             ELSE RemoveContract(HooksOf(last'.obj, opt, rules),
                                 HooksOf(last'.obj, opt', rules'))
          /\ (last'.err # "ok" \/ last'.obj # "opt") => opt' = opt
          /\ \A p \in Params : (last'.err # "ok" \/ last'.obj # p) => rules'[p] = rules[p]]_vars

\* The first of two global hooks is removed, the second stays.
C13_Witness ==
    /\ last.op = "remove_hook" /\ last.obj = "opt" /\ last.err = "ok" /\ last.name = "A"
    /\ ~last.undo
    /\ opt.hooks = <<[name |-> "B", hook |-> "inst"]>>
    /\ Len(rules["p1"].hooks) = 2

(***************************************************************************)
(* Hooks that raise, and a core that raises, in both pipelines: the rule   *)
(* of parameter p1 used directly, and the optimizer on the first link.     *)
(***************************************************************************)
RaiseHookArgs == {<<"inst", "A">>, <<"bad", "B">>}

NextRaise ==
    \/ Setup("L1")
    \/ \E a \in RaiseHookArgs : OptAddHook(a[1], a[2])
    \/ \E c \in Classes : BindRule("p1", c)
    \/ \E a \in RaiseHookArgs : RuleAddHook("p1", a[1], a[2])
    \/ RuleUpdate("p1")
    \/ Update(None)
    \/ \E b \in BOOLEAN : SetGrad("p2", b)

SpecRaise == InitOpt /\ [][NextRaise]_vars

\* The index of the first hook of the mapping that raises.
FirstRaising(hooks) ==
    CHOOSE k \in 1 .. Len(hooks) :
       /\ HookError(hooks[k].hook) # "ok"
       /\ \A i \in 1 .. k - 1 : HookError(hooks[i].hook) = "ok"

\* The events ev of the trace are the calls of the first k hooks, in order.
CalledUpTo(tr, ev, hooks, k) ==
    LET hk == SelectSeq(tr, LAMBDA e : e.ev = ev)
    IN  /\ Len(hk) = k
        /\ \A i \in 1 .. k : hk[i].who = hooks[i].name /\ hk[i].fn = hooks[i].hook

\* C14: a step that raises is not rolled back. When the k-th hook of a rule
\* raises in update(param), t is incremented, the state is initialised, the
\* hooks before it were called and the hooks after it and the core were not;
\* when the core raises, every hook was called as well. When the k-th global
\* hook raises in GradientMethod.update, the zero fill and the hooks before
\* it have taken effect, t of the optimizer is not incremented and no rule
\* is updated.
C14_NoRollback ==
    [][/\ \A p \in Params :
            (last'.op = "rule_update" /\ last'.obj = p /\ last'.err # "ok")
            => LET r == rules[p]
                   tr == last'.trace
               IN  /\ rules'[p].t = r.t + 1
                   /\ rules'[p].state.init
                   /\ rules'[p].hooks = r.hooks
                   /\ \A i \in 1 .. Len(tr) :
                         IsHook(tr[i]) => tr[i].t = r.t + 1 /\ tr[i].st.init
                   /\ IF ~AllReturn(r.hooks)
                      THEN /\ CalledUpTo(tr, "hook", r.hooks, FirstRaising(r.hooks))
                           /\ last'.err = HookError(r.hooks[FirstRaising(r.hooks)].hook)
                           /\ \A i \in 1 .. Len(tr) : ~IsCore(tr[i])
                           /\ rules'[p].state = tr[Len(tr)].st
                      ELSE /\ CalledUpTo(tr, "hook", r.hooks, Len(r.hooks))
                           /\ IsCore(tr[Len(tr)])
                           /\ r.cls = "UpdateRule" => last'.err = "NotImplementedError"
       /\ (last'.op = "update" /\ opt.setup /\ ~AllReturn(opt.hooks))
          => LET tr == last'.trace
             IN  /\ last'.err = HookError(opt.hooks[FirstRaising(opt.hooks)].hook)
                 /\ CalledUpTo(tr, "global_hook", opt.hooks, FirstRaising(opt.hooks))
                 /\ \A i \in 1 .. Len(tr) : tr[i].ev \notin RuleEvents
                 /\ opt' = opt
                 /\ rules' = rules
                 /\ \A p \in InLink(opt.target) :
                       IF params[p].grad.set
                       THEN params'[p].grad = params[p].grad
                       ELSE ZeroGrad(params'[p].grad, p, params[p].dev)]_vars

\* The second of two hooks of the rule raised in its first update.
C14_Witness ==
    /\ last.op = "rule_update" /\ last.obj = "p1" /\ last.err = "RuntimeError"
    /\ rules["p1"].hooks = <<[name |-> "A", hook |-> "inst"], [name |-> "B", hook |-> "bad"]>>
    /\ rules["p1"].t = 1
    /\ rules["p1"].state.init
    /\ Len(SelectSeq(last.trace, IsHook)) = 2

(***************************************************************************)
(* Hyperparameter objects: options are set, parents are set, options are   *)
(* read and get_dict is called, on three objects.                          *)
(***************************************************************************)
\* setattr(h, k, v)
HSetAttr(h, k, v) ==
    /\ hyper' = [hyper EXCEPT ![h] = DictPut(@, k, v)]
    /\ last' = Call("setattr", h, "ok", k, <<>>, <<>>)
    /\ UNCHANGED <<opt, params, rules, store, saved>>

\* h.set_parent(parent)
HSetParent(h, parent) ==
    /\ hyper' = Hyperparameter_set_parent(hyper, h, parent)
    /\ last' = Call("set_parent", h, "ok", parent, <<>>, <<>>)
    /\ UNCHANGED <<opt, params, rules, store, saved>>

\* d = h.get_dict()
HGetDict(h) ==
    /\ LET res == Hyperparameter_get_dict(hyper, h, RecursionLimit)
       IN  /\ hyper' = res.hyper
           /\ last' = [Call("get_dict", h, res.err, None, <<>>, <<>>) EXCEPT !.dict = res.d]
    /\ UNCHANGED <<opt, params, rules, store, saved>>

\* d = h.get_dict(); d[k] = v: the caller writes into the mapping it got.
HGetDictPut(h, k, v) ==
    /\ LET res == Hyperparameter_get_dict(hyper, h, RecursionLimit)
       IN  /\ hyper' = IF res.err = "ok" /\ res.alias # None
                       THEN [res.hyper EXCEPT ![res.alias] = DictPut(@, k, v)]
                       ELSE res.hyper
           /\ last' = [Call("get_dict_put", h, res.err, k, <<>>, <<>>)
                         EXCEPT !.dict = IF res.err = "ok" THEN DictPut(res.d, k, v) ELSE res.d]
    /\ UNCHANGED <<opt, params, rules, store, saved>>

\* getattr(h, name); after is the call made before this one.
HGetAttr(h, name) ==
    /\ LET res == Hyperparameter_getattr(hyper, h, name, RecursionLimit)
       IN  last' = [Call("getattr", h, res.err, name, <<>>, <<>>)
                      EXCEPT !.ret = res.ret, !.after = last.op]
    /\ UNCHANGED <<opt, params, rules, store, saved, hyper>>

\* The options that are set, and the parents that are given: the chain
\* h1, h2, h3 can be built, and the cycle of h1 and h3.
HOptionArgs == {<<"lr", "x">>, <<"lr", "y">>, <<"beta", "x">>}
HParentArgs == {<<"h1", "h2">>, <<"h1", "h3">>, <<"h2", "h3">>, <<"h3", "h1">>}
               \cup (HNodes \X {None})

NextHyper ==
    \/ \E h \in HNodes, a \in HOptionArgs : HSetAttr(h, a[1], a[2])
    \/ \E a \in HParentArgs : HSetParent(a[1], a[2])
    \/ \E h \in HNodes : HGetDict(h)
    \/ \E h \in HNodes, a \in HOptionArgs : HGetDictPut(h, a[1], a[2])
    \/ \E h \in HNodes, k \in HKeys : HGetAttr(h, k)

SpecHyper == InitOpt /\ [][NextHyper]_vars

(***************************************************************************)
(* Properties of Hyperparameter.                                           *)
(***************************************************************************)
\* The i-th ancestor of h (h itself for i = 0), None past the root.
RECURSIVE Up(_, _, _)
Up(hy, h, i) ==
    IF i = 0 THEN h
    ELSE LET q == Up(hy, h, i - 1)
         IN  IF q = None THEN None ELSE hy[q]["_parent"]

Acyclic(hy, h) == Up(hy, h, Cardinality(HNodes)) = None

\* The objects of the chain of h, and the steps from h to the nearest one
\* that holds option k itself.
ChainSet(hy, h) == {Up(hy, h, i) : i \in 0 .. Cardinality(HNodes)} \ {None}
Holders(hy, h, k) == {i \in 0 .. Cardinality(HNodes) :
                         Up(hy, h, i) # None /\ k \in DOMAIN hy[Up(hy, h, i)]}
Nearest(hy, h, k) ==
    LET i == CHOOSE i \in Holders(hy, h, k) : \A j \in Holders(hy, h, k) : i <= j
    IN  hy[Up(hy, h, i)][k]

\* C15: on a chain without a cycle get_dict() returns a new mapping whose
\* keys are the options held anywhere on the chain, never "_parent", each
\* with the value of the nearest object that holds it, and changes no
\* object; writing into the returned mapping changes no object; setting an
\* option on an object changes get_dict() of no object that does not have it
\* on its chain, so never that of its parent.
C15_GetDict ==
    [][/\ (last'.op \in {"get_dict", "get_dict_put"} /\ Acyclic(hyper, last'.obj))
          => /\ last'.err = "ok"
             /\ hyper' = hyper
       /\ (last'.op = "get_dict" /\ Acyclic(hyper, last'.obj))
          => LET h == last'.obj
                 d == last'.dict
             IN  /\ DOMAIN d = UNION {DOMAIN hyper[q] : q \in ChainSet(hyper, h)} \ {"_parent"}
                 /\ \A k \in DOMAIN d : d[k] = Nearest(hyper, h, k)
       /\ last'.op = "setattr"
          => \A q \in HNodes :
                (Acyclic(hyper, q) /\ last'.obj \notin ChainSet(hyper, q))
                => Hyperparameter_get_dict(hyper', q, RecursionLimit).d
                     = Hyperparameter_get_dict(hyper, q, RecursionLimit).d]_vars

\* get_dict() on the first object of a chain of three: lr from the object
\* itself, not from the root, beta from the object in the middle.
C15_Witness ==
    /\ last.op = "get_dict" /\ last.obj = "h1" /\ last.err = "ok"
    /\ hyper["h1"] = [k \in {"_parent", "lr"} |-> IF k = "lr" THEN "y" ELSE "h2"]
    /\ hyper["h2"] = [k \in {"_parent", "beta"} |-> IF k = "beta" THEN "x" ELSE "h3"]
    /\ hyper["h3"] = [k \in {"_parent", "lr"} |-> IF k = "lr" THEN "x" ELSE None]
    /\ last.dict = [k \in {"lr", "beta"} |-> IF k = "lr" THEN "y" ELSE "x"]

\* C16: on a chain without a cycle, reading an option gives the value held
\* by the object itself, else by the nearest ancestor that holds it, and
\* raises AttributeError exactly when no object of the chain holds it; it
\* agrees with get_dict(); it follows the chain as it is when the read is
\* made, so right after a set_parent or a change of a value as well.
C16_AttributeRead ==
    [][(last'.op = "getattr" /\ Acyclic(hyper, last'.obj))
       => LET h == last'.obj
              k == last'.name
              gd == Hyperparameter_get_dict(hyper, h, RecursionLimit).d
          IN  /\ IF Holders(hyper, h, k) # {}
                 THEN last'.err = "ok" /\ last'.ret = Nearest(hyper, h, k)
                 ELSE last'.err = "AttributeError"
              /\ last'.err = "ok" <=> k \in DOMAIN gd
              /\ last'.err = "ok" => last'.ret = gd[k]
              /\ last'.after = last.op
              /\ hyper' = hyper]_vars

\* A read of lr on h1 right after h1 was given the parent h3: the value of
\* h3, not the one h2 holds.
C16_Witness ==
    /\ last.op = "getattr" /\ last.obj = "h1" /\ last.name = "lr" /\ last.err = "ok"
    /\ last.after = "set_parent"
    /\ hyper["h1"] = NewHyper("h3")
    /\ "lr" \in DOMAIN hyper["h2"] /\ hyper["h2"]["lr"] = "x"
    /\ "lr" \in DOMAIN hyper["h3"] /\ hyper["h3"]["lr"] = "y"
    /\ last.ret = "y"

(***************************************************************************)
(* The optimizer is saved and loaded: setup on either link, updates and    *)
(* new epochs, a parameter that loses its rule, and serialize with a       *)
(* Serializer or a Deserializer on one storage.                            *)
(***************************************************************************)
\* opt.serialize(serializer); pre holds t and epoch before the call.
OptSerialize(mode) ==
    /\ LET res == Optimizer_serialize(opt, mode, store, params, rules)
       IN  /\ opt' = res.opt
           /\ store' = res.store
           /\ rules' = res.rules
           /\ last' = Call("serialize", "opt", res.err, mode, <<opt.t, opt.epoch>>, res.trace)
    /\ UNCHANGED <<params, saved, hyper>>

\* param.update_rule = None
UnbindRule(p) ==
    /\ params[p].hasRule
    /\ params' = [params EXCEPT ![p].hasRule = FALSE]
    /\ last' = Call("unbind", p, "ok", None, <<>>, <<>>)
    /\ UNCHANGED <<opt, rules, store, saved, hyper>>

NextSer ==
    \/ \E l \in Links : Setup(l)
    \/ NewEpoch
    \/ (\A p \in Params : rules[p].t < MaxT) /\ Update(None)
    \/ UnbindRule("p2")
    \/ \E m \in Modes : OptSerialize(m)

SpecSer == InitOpt /\ [][NextSer]_vars

\* What a serializer call for key with value v does to the mapping m.
Stored(m, key, v) == [k \in DOMAIN m \cup {key} |-> IF k = key THEN v ELSE m[k]]
Loaded(m, key, v) == IF key \in DOMAIN m THEN m[key] ELSE v

\* C17: Optimizer.serialize with a Serializer stores t and epoch and leaves
\* them as they are, with a Deserializer it sets them to what is stored (so
\* the reader ends with the t and epoch the writer had); it calls serialize
\* of the rule of every parameter of the target that has one, in the order
\* of namedparams, on the sub-scope under the name of the parameter, and
\* skips the others; parameters, gradients, target and global hooks are as
\* before.
C17_OptimizerSerialize ==
    [][(last'.op = "serialize" /\ opt.setup)
       => LET mode == last'.name
              ruled == SelectSeq(ParamsOf(opt.target), LAMBDA p : params[p].hasRule)
          IN  /\ last'.err = "ok"
              /\ IF mode = "write"
                 THEN /\ store'.top = Stored(Stored(store.top, "t", opt.t), "epoch", opt.epoch)
                      /\ opt'.t = opt.t /\ opt'.epoch = opt.epoch
                 ELSE /\ store'.top = store.top
                      /\ opt'.t = Loaded(store.top, "t", opt.t)
                      /\ opt'.epoch = Loaded(store.top, "epoch", opt.epoch)
              /\ opt' = [opt EXCEPT !.t = opt'.t, !.epoch = opt'.epoch]
              /\ params' = params
              /\ Len(last'.trace) = Len(ruled)
              /\ \A i \in 1 .. Len(ruled) :
                    /\ last'.trace[i].ev = "rule.serialize"
                    /\ last'.trace[i].who = ruled[i]
              /\ \A p \in Params :
                    IF \E i \in 1 .. Len(ruled) : ruled[i] = p
                    THEN LET res == UpdateRule_serialize(rules[p], mode, store.sub[p])
                         IN  rules'[p] = res.rule /\ store'.sub[p] = res.m
                    ELSE rules'[p] = rules[p] /\ store'.sub[p] = store.sub[p]]_vars

\* An optimizer set up anew reads t = 2 and epoch = 1 of an earlier write;
\* the second parameter has no rule, the first has its state restored.
C17_Witness ==
    /\ last.op = "serialize" /\ last.name = "read" /\ last.err = "ok"
    /\ last.pre = <<0, 0>>
    /\ opt.t = 2 /\ opt.epoch = 1
    /\ opt.target = "L1"
    /\ ~params["p2"].hasRule
    /\ Len(last.trace) = 1
    /\ rules["p1"].state.init /\ rules["p1"].t = 0
    /\ DOMAIN store.sub["p2"] = {}

(***************************************************************************)
(* The clipping hook functions, called with an optimizer that is set up on *)
(* the first link, for every gradient and every threshold and bound of the *)
(* sets below.                                                             *)
(***************************************************************************)
GradVals == {-4 * Scale, -3 * Scale, 0, 3 * Scale, 4 * Scale}
ThresholdVals == {0, Scale, 5 * Scale, 6 * Scale}
BoundVals == {-Scale, 0, 3 * Scale}

InitClip ==
    /\ opt = Optimizer_setup(NoOptimizer, "L1").opt
    /\ rules = [p \in Params |-> NewUpdateRule(OptRuleClass)]
    /\ \E d \in Devices, g1 \in GradVals, g2 \in GradVals, g3 \in GradVals :
          params = [p \in Params |->
                      LET dev == IF p = "p1" THEN d ELSE -1
                      IN  [dev |-> dev,
                           data |-> IF p = "p1" THEN <<2 * Scale>> ELSE <<Scale, -Scale>>,
                           grad |-> [Filled(p, 0, dev)
                                       EXCEPT !.elems = IF p = "p1" THEN <<g1>> ELSE <<g2, g3>>],
                           hasRule |-> TRUE]]
    /\ store = EmptyStore
    /\ saved = NothingSaved
    /\ hyper = NoHyper
    /\ last = Call("init", None, "ok", None, <<>>, <<>>)

\* Optimizer.clip_grads(maxnorm): GradientClipping(maxnorm)(self); pre holds
\* the threshold.
ClipGrads(maxnorm) ==
    /\ ExactClipping(maxnorm, opt.target, params)
    /\ params' = GradientClipping_call(maxnorm, opt.target, params)
    /\ last' = Call("clip_grads", "opt", "ok", None, <<maxnorm>>, <<>>)
    /\ UNCHANGED <<opt, rules, store, saved, hyper>>

\* GradientHardClipping(lower, upper)(opt); pre holds the bounds.
HardClip(lower, upper) ==
    /\ params' = GradientHardClipping_call(lower, upper, opt.target, params)
    /\ last' = Call("hard_clip", "opt", "ok", None, <<lower, upper>>, <<>>)
    /\ UNCHANGED <<opt, rules, store, saved, hyper>>

NextClip ==
    \/ \E t \in ThresholdVals : ClipGrads(t)
    \/ \E lo \in BoundVals, hi \in BoundVals : HardClip(lo, hi)

SpecClip == InitClip /\ [][NextClip]_vars

\* All elements of the gradients of the target, and the parameters with
\* other gradient elements.
AllGrads(ps) == Flatten(GradsOf("L1", ps))
SameButGrads(ps, ps2) ==
    \A p \in Params : ps2[p] = [ps[p] EXCEPT !.grad.elems = ps2[p].grad.elems]

\* C18: with N the L2 norm of all gradients together, GradientClipping with
\* a threshold T < N multiplies every gradient element by T / N, so that the
\* norm becomes T, and with N <= T, N = 0 included, changes no gradient; the
\* data of the parameters are never changed.
C18_GradientClipping ==
    [][last'.op = "clip_grads"
       => LET T == last'.pre[1]
              g == AllGrads(params)
              g2 == AllGrads(params')
              NN == SumSeq([i \in 1 .. Len(g) |-> g[i] * g[i]])
          IN  /\ Len(g2) = Len(g)
              /\ IF T * T < NN
                 THEN /\ \A i \in 1 .. Len(g) :
                            /\ g2[i] * g2[i] * NN = g[i] * g[i] * T * T
                            /\ g2[i] * g[i] >= 0
                      /\ SumSeq([i \in 1 .. Len(g2) |-> g2[i] * g2[i]]) = T * T
                 ELSE g2 = g
              /\ SameButGrads(params, params')
              /\ \A p \in Params : params'[p].data = params[p].data]_vars

\* Gradients 3.0 and (4.0, 0.0), of norm 5.0, were clipped with threshold
\* 1.0 to 0.6 and (0.8, 0.0).
C18_Witness ==
    /\ last.op = "clip_grads" /\ last.pre = <<Scale>>
    /\ params["p1"].grad.elems = <<(3 * Scale) \div 5>>
    /\ params["p2"].grad.elems = <<(4 * Scale) \div 5, 0>>
    /\ params["p1"].dev # params["p2"].dev

\* C19: after GradientHardClipping(lo, hi) with lo <= hi every gradient
\* element is in [lo, hi]: an element that was inside is as it was, one that
\* was below lo is lo, one that was above hi is hi; the hook applied again
\* changes nothing.
C19_HardClipping ==
    [][(last'.op = "hard_clip" /\ last'.pre[1] <= last'.pre[2])
       => LET lo == last'.pre[1]
              hi == last'.pre[2]
              g == AllGrads(params)
              g2 == AllGrads(params')
          IN  /\ Len(g2) = Len(g)
              /\ \A i \in 1 .. Len(g) :
                    /\ lo <= g2[i] /\ g2[i] <= hi
                    /\ (lo <= g[i] /\ g[i] <= hi) => g2[i] = g[i]
                    /\ g[i] < lo => g2[i] = lo
                    /\ g[i] > hi => g2[i] = hi
              /\ SameButGrads(params, params')
              /\ GradientHardClipping_call(lo, hi, opt.target, params') = params'
              /\ (last.op = "hard_clip" /\ last.pre = last'.pre) => params' = params]_vars

\* Gradients below, inside and above the bounds -1.0 and 3.0.
C19_Witness ==
    /\ last.op = "hard_clip" /\ last.pre = <<-Scale, 3 * Scale>>
    /\ params["p1"].grad.elems = <<-Scale>>
    /\ params["p2"].grad.elems = <<3 * Scale, 0>>

(***************************************************************************)
(* Weight decay as a global hook: on an optimizer that is set up on the    *)
(* first link a WeightDecay hook and a hook that only looks are registered *)
(* and removed, gradients are set from outside, and update() is called.    *)
(***************************************************************************)
DataVals == {-Scale, 2 * Scale}

InitDecay ==
    /\ opt = Optimizer_setup(NoOptimizer, "L1").opt
    /\ rules = [p \in Params |-> NewUpdateRule(OptRuleClass)]
    /\ \E w \in DataVals :
          params = [p \in Params |-> [dev |-> -1,
                                      data |-> IF p = "p1" THEN <<w>> ELSE <<Scale, 0>>,
                                      grad |-> NoGrad, hasRule |-> TRUE]]
    /\ store = EmptyStore
    /\ saved = NothingSaved
    /\ hyper = NoHyper
    /\ last = Call("init", None, "ok", None, <<>>, <<>>)

\* param.grad = an array like param.data, every element v
SetGradValue(p, v) ==
    /\ params' = [params EXCEPT ![p].grad = Filled(p, v, params[p].dev)]
    /\ last' = Call("set_grad", p, "ok", None, <<>>, <<>>)
    /\ UNCHANGED <<opt, rules, store, saved, hyper>>

NextDecay ==
    \/ \E h \in {"WeightDecay", "inst"} : OptAddHook(h, None)
    \/ OptRemoveHook("WeightDecay")
    \/ \E v \in {0, Scale} : SetGradValue("p1", v)
    \/ SetGrad("p2", FALSE)
    \/ Update(None)

SpecDecay == InitDecay /\ [][NextDecay]_vars

\* C20: an update() of an optimizer with one WeightDecay hook among its
\* global hooks leaves every gradient at g + rate * p, for the gradient g
\* the hooks started with and the data p, which do not change: the hook is
\* called once, before the update of any parameter, and the update of every
\* parameter, with its numeric core, finds the gradients so.
C20_WeightDecayOnce ==
    [][(/\ last'.op = "update" /\ last'.err = "ok" /\ opt.setup
        /\ Cardinality({i \in 1 .. Len(opt.hooks) : opt.hooks[i].hook = "WeightDecay"}) = 1)
       => LET tr == last'.trace
              c == CHOOSE i \in Where(tr, "call_hooks") : TRUE
              wd == {i \in Where(tr, "global_hook") : tr[i].fn = "WeightDecay"}
          IN  /\ Cardinality(wd) = 1
              /\ \A i \in 1 .. Len(tr) : \A w \in wd :
                    (tr[i].ev \in RuleEvents) => w < i
              /\ \A p \in InLink(opt.target) :
                    /\ params'[p].data = params[p].data
                    /\ \A i \in 1 .. ParamShape(p) :
                          params'[p].grad.elems[i] * DecayRate.d
                            = tr[c].st[p].grad.elems[i] * DecayRate.d
                              + DecayRate.n * params[p].data[i]
              /\ \A u \in Where(tr, "param.update") : tr[u].st = params'
              /\ Cardinality(Where(tr, "param.update")) = Len(ParamsOf(opt.target))]_vars

\* With the rate 0.1, the gradient 1.0 and the data 2.0 of the first
\* parameter, its update finds the gradient 1.2.
C20_Witness ==
    /\ last.op = "update" /\ last.err = "ok"
    /\ DecayRate = [n |-> 1, d |-> 10]
    /\ params["p1"].data = <<2 * Scale>>
    /\ \E c \in Where(last.trace, "call_hooks") :
          last.trace[c].st["p1"].grad.elems = <<Scale>>
    /\ \E u \in Where(last.trace, "param.update") :
          /\ last.trace[u].who = "p1"
          /\ last.trace[u].st["p1"].grad.elems = <<(12 * Scale) \div 10>>
          /\ \E k \in Where(last.trace, "update_core_cpu") : k > u

(***************************************************************************)
(* Properties of the state of an update rule.                              *)
(***************************************************************************)
\* C21: the state of a rule is None until its first enabled update or its
\* first serialize with a Deserializer, which both leave it a dict, and no
\* call on the rule makes it None again; update calls init_state on the rule
\* once in the enabled update that finds the state None, and in no other
\* update, so at most once for a rule.
C21_StateLifecycle ==
    [][\A p \in Params :
         (last'.obj = p /\ last'.op # "bind")
         => LET creates == \/ last'.op = "rule_update" /\ rules[p].enabled
                           \/ last'.op = "rule_serialize" /\ last'.name = "read"
                inits == Cardinality(Where(last'.trace, "init_state"))
            IN  /\ rules[p].state.init => rules'[p].state.init
                /\ ~rules[p].state.init => (rules'[p].state.init <=> creates)
                /\ inits = IF last'.op = "rule_update" /\ rules[p].enabled
                                /\ ~rules[p].state.init
                           THEN 1 ELSE 0]_vars

\* A second update of a rule, with a hook registered: init_state is not
\* called again.
C21_Witness ==
    /\ last.op = "rule_update" /\ last.obj = "p1"
    /\ rules["p1"].cls = "StatefulRule" /\ rules["p1"].t = 2
    /\ rules["p1"].state.init
    /\ Len(rules["p1"].hooks) = 1
    /\ Where(last.trace, "init_state") = {}
    /\ Where(last.trace, "_prepare") # {}

\* Whether w is the value v, or a copy of the array v on device d.
CopyOf(w, v, d) ==
    /\ w.arr = v.arr /\ w.val = v.val
    /\ w.dev = v.dev \/ (v.arr /\ w.dev = d)

\* The calls of an update that come after _prepare: hooks and numeric core.
AfterPrepare(tr) ==
    {i \in 1 .. Len(tr) :
       tr[i].ev \in {"hook", "update_core_cpu", "update_core_gpu"}}

\* C22: serialize with a Deserializer on a rule whose state is None leaves a
\* state whose keys are those init_state creates and whose value for a key
\* is what the serializer returned for it (None for a key never stored); the
\* first enabled update after it (the rule has a state and t is still 0)
\* does not call init_state, and its hooks and its numeric core find every
\* restored entry, with its value or a copy of it on the parameter's device.
C22_RestoredStateKept ==
    [][\A p \in Params :
         /\ (last'.op = "rule_serialize" /\ last'.obj = p /\ last'.name = "read"
               /\ ~rules[p].state.init)
            => /\ rules'[p].state.init
               /\ DOMAIN rules'[p].state.ent
                    = DOMAIN init_state(rules[p].cls, params[p].dev)
               /\ \A k \in DOMAIN rules'[p].state.ent :
                    rules'[p].state.ent[k] = Loaded(store.sub[p], k, NoneVal)
         /\ (last'.op = "rule_update" /\ last'.obj = p /\ rules[p].enabled
               /\ rules[p].state.init /\ rules[p].t = 0)
            => /\ Where(last'.trace, "init_state") = {}
               /\ AfterPrepare(last'.trace) # {}
               /\ \A i \in AfterPrepare(last'.trace) :
                    LET seen == last'.trace[i].st
                    IN  /\ seen.init
                        /\ DOMAIN seen.ent = DOMAIN rules[p].state.ent
                        /\ \A k \in DOMAIN seen.ent :
                             CopyOf(seen.ent[k], rules[p].state.ent[k], params[p].dev)]_vars

\* The first update of a rule whose state a Deserializer restored, with the
\* parameter on a device: the hook finds the stored array, copied to the
\* device, and init_state is not called.
C22_Witness ==
    /\ last.op = "rule_update" /\ last.obj = "p1" /\ last.err = "ok"
    /\ rules["p1"].cls = "StatefulRule" /\ rules["p1"].t = 1
    /\ Where(last.trace, "init_state") = {}
    /\ \E i \in Where(last.trace, "hook") :
         /\ last.trace[i].st.ent["v"] = [saved["p1"].ent["v"] EXCEPT !.dev = 0]
         /\ last.trace[i].st.ent["v"].val = 1
    /\ params["p1"].dev = 0

\* C23: serialize with a Serializer on a rule whose state is None stores no
\* key, calls init_state neither on the rule nor on a copy and leaves the
\* rule as it is, its state None; init_state of a throwaway copy is called
\* only by a serialize that finds the state None and is given a
\* Deserializer.
C23_WriteUninitialized ==
    [][\A p \in Params :
         (last'.op = "rule_serialize" /\ last'.obj = p)
         => /\ (last'.name = "write" /\ ~rules[p].state.init)
               => /\ store' = store
                  /\ last'.trace = <<>>
                  /\ rules'[p] = rules[p]
                  /\ ~rules'[p].state.init
            /\ Where(last'.trace, "copy.init_state") # {}
               => (~rules[p].state.init /\ last'.name = "read")]_vars

\* serialize with a Serializer on a rule with a hook and no state yet, when
\* nothing is stored.
C23_Witness ==
    /\ last.op = "rule_serialize" /\ last.obj = "p1" /\ last.name = "write"
    /\ rules["p1"].cls = "StatefulRule"
    /\ ~rules["p1"].state.init
    /\ Len(rules["p1"].hooks) = 1
    /\ store.sub["p1"] = EmptyMap
    /\ last.trace = <<>>

(***************************************************************************)
(* The step counters: an optimizer that is set up, updated and serialized, *)
(* and the rule of its first parameter, which is serialized on its own,    *)
(* given a hook and disabled or enabled.                                   *)
(***************************************************************************)
NextStep ==
    \/ \E l \in Links : Setup(l)
    \/ (\A p \in Params : rules[p].t < MaxT) /\ Update(None)
    \/ \E m \in Modes : OptSerialize(m)
    \/ \E m \in Modes : RuleSerialize("p1", m)
    \/ RuleAddHook("p1", "inst", None)
    \/ \E b \in BOOLEAN : SetEnabled("p1", b)

SpecStep == InitOpt /\ [][NextStep]_vars

\* The rules Optimizer.serialize reaches: those of the target's parameters.
BoundRules == {p \in InLink(opt.target) : params[p].hasRule}

\* C24: serialize of a rule, called on the rule or by Optimizer.serialize,
\* with a Serializer or a Deserializer, leaves t, enabled and the hooks of
\* the rule as they are; the t of a rule never decreases (setup binds new
\* rules); Optimizer.serialize with a Deserializer on an optimizer that is
\* set up and not yet updated sets the optimizer's t to the stored t and
\* leaves the t of every rule of the target 0.
C24_SerializeKeepsT ==
    [][/\ \A p \in Params :
            (\/ last'.op = "rule_serialize" /\ last'.obj = p
             \/ last'.op = "serialize")
            => /\ rules'[p].t = rules[p].t
               /\ rules'[p].enabled = rules[p].enabled
               /\ rules'[p].hooks = rules[p].hooks
       /\ ~(last'.op = "setup" /\ last'.err = "ok")
            => \A p \in Params : rules'[p].t >= rules[p].t
       /\ (/\ last'.op = "serialize" /\ last'.name = "read"
           /\ opt.setup /\ opt.t = 0
           /\ \A p \in BoundRules : rules[p].t = 0
           /\ "t" \in DOMAIN store.top)
            => /\ opt'.t = store.top["t"]
               /\ \A p \in BoundRules : rules'[p].t = 0]_vars

\* An optimizer set up anew reads the t = 2 of an earlier write, and the
\* state of its rules with it: both rules are still at t = 0, the first
\* has its hook and is disabled as before.
C24_Witness ==
    /\ last.op = "serialize" /\ last.name = "read" /\ last.err = "ok"
    /\ last.pre[1] = 0
    /\ opt.t = 2 /\ opt.target = "L1"
    /\ BoundRules = {"p1", "p2"}
    /\ \A p \in BoundRules : rules[p].t = 0 /\ rules[p].state.init
    /\ Len(rules["p1"].hooks) = 1 /\ ~rules["p1"].enabled
    /\ rules["p1"].state.ent["v"].arr

====
